---- MODULE Spec2Model ----
(***************************************************************************)
(* Model of protogen-javascript: the register/resolve linking of the      *)
(* descriptor graph (src/main.ts, src/plugin.ts), the Registry with its   *)
(* name resolver (src/registry.ts), the generation callback and response  *)
(* of Options.run, the parsing of the parameter string, and the           *)
(* GeneratedFile buffer with its imports (src/plugin.ts).                 *)
(*                                                                         *)
(* Strings of the program whose characters matter (package names, full    *)
(* names, type names) are sequences of one-character strings, so that     *)
(* charAt(0), slice(1) and template concatenation are computed.  Objects  *)
(* are identified by <<index of the file in the request>> followed by the *)
(* source-path vector the constructors assign to them.                    *)
(***************************************************************************)
EXTENDS Integers, Sequences, FiniteSets, TLC

\* ------------------------------------------------------------------ bounds
MaxFiles == 3
MaxCalls == 3

\* ------------------------------------------------------------------ values
NULL == <<>>
Dot == <<".">>

\* Same as google.protobuf.FieldDescriptorProto.Type
KindString == 9
KindMessage == 11
KindEnum == 14

RECURSIVE FoldSeq(_, _, _)
FoldSeq(Op(_, _), acc, s) ==
  IF s = <<>> THEN acc ELSE FoldSeq(Op, Op(acc, Head(s)), Tail(s))

Range(s) == {s[k] : k \in DOMAIN s}

\* ------------------------------------------------------- descriptor protos
\* Same as google.protobuf.FieldDescriptorProto.Label
LabelOptional == 1
LabelRequired == 2
LabelRepeated == 3

\* A field proto as protoc writes it for a singular field outside any oneof.
FD(name, type, typeName, extendee) ==
  [name |-> name, type |-> type, typeName |-> typeName, extendee |-> extendee,
   label |-> LabelOptional, hasOneofIndex |-> FALSE, oneofIndex |-> 0]

\* The field proto with another label / with a oneof index set.
Labelled(fd, label) == [fd EXCEPT !.label = label]
InOneof(fd, idx) == [fd EXCEPT !.hasOneofIndex = TRUE, !.oneofIndex = idx]

MD(name, mapEntry, fields, nested, enums, extensions) ==
  [name |-> name, mapEntry |-> mapEntry, field |-> fields,
   nestedType |-> nested, enumType |-> enums, extension |-> extensions,
   oneofDecl |-> <<>>]

\* The message proto with oneof declarations (their names).
WithOneofs(md, decls) == [md EXCEPT !.oneofDecl = decls]

ED(name) == [name |-> name]

MethD(name, input, output) ==
  [name |-> name, inputType |-> input, outputType |-> output]

SD(name, methods) == [name |-> name, method |-> methods]

FileD(name, package, deps, messages, enums, services, extensions) ==
  [name |-> name, package |-> package, dependency |-> deps,
   messageType |-> messages, enumType |-> enums, service |-> services,
   extension |-> extensions]

\* a.proto, package p: nesting three levels deep, enum and extension inside a
\* nested message, a service.
FileA ==
  FileD(<<"a">>, <<"p">>, <<>>,
    << MD(<<"M">>, FALSE,
          << FD(<<"s">>, KindString, <<>>, <<>>) >>,
          << MD(<<"N">>, FALSE,
                << Labelled(FD(<<"t">>, KindString, <<>>, <<>>), LabelRequired) >>,
                << MD(<<"O">>, FALSE,
                      << Labelled(FD(<<"u">>, KindMessage, <<".", "p", ".", "M">>, <<>>),
                                  LabelRepeated) >>,
                      <<>>, <<>>, <<>>) >>,
                << ED(<<"E">>) >>,
                << FD(<<"x">>, KindString, <<>>, <<".", "p", ".", "M">>) >>) >>,
          << ED(<<"F">>) >>,
          <<>>) >>,
    << ED(<<"G">>) >>,
    << SD(<<"S">>, << MethD(<<"Get">>, <<".", "p", ".", "M">>,
                            <<".", "p", ".", "M", ".", "N">>) >>) >>,
    << FD(<<"y">>, KindEnum, <<".", "p", ".", "G">>, <<".", "p", ".", "M">>) >>)

\* b.proto, package q: imports a.proto and uses its message.
FileB ==
  FileD(<<"b">>, <<"q">>, << <<"a">> >>,
    << MD(<<"N">>, FALSE,
          << FD(<<"m">>, KindMessage, <<".", "p", ".", "M">>, <<>>) >>,
          <<>>, <<>>, <<>>) >>,
    <<>>, <<>>, <<>>)

\* c.proto and d.proto import each other.
FileC ==
  FileD(<<"c">>, <<"r">>, << <<"d">> >>,
    << MD(<<"C">>, FALSE,
          << FD(<<"d">>, KindMessage, <<".", "s", ".", "D">>, <<>>) >>,
          <<>>, <<>>, <<>>) >>,
    <<>>, <<>>, <<>>)

FileDd ==
  FileD(<<"d">>, <<"s">>, << <<"c">> >>,
    << MD(<<"D">>, FALSE,
          << FD(<<"c">>, KindMessage, <<".", "r", ".", "C">>, <<>>) >>,
          <<>>, <<>>, <<>>) >>,
    <<>>, <<>>, <<>>)

\* e.proto, package t: two map fields; the synthetic entry messages
\* alternate with ordinary nested messages.
FileE ==
  FileD(<<"e">>, <<"t">>, <<>>,
    << MD(<<"T">>, FALSE,
          << Labelled(FD(<<"k">>, KindMessage, <<".", "t", ".", "T", ".", "K">>, <<>>),
                      LabelRepeated),
             Labelled(FD(<<"l">>, KindMessage, <<".", "t", ".", "T", ".", "L">>, <<>>),
                      LabelRepeated) >>,
          << MD(<<"K">>, TRUE,
                << FD(<<"key">>, KindString, <<>>, <<>>),
                   FD(<<"value">>, KindMessage, <<".", "t", ".", "T", ".", "P">>, <<>>) >>,
                <<>>, <<>>, <<>>),
             MD(<<"P">>, FALSE, <<>>, <<>>, <<>>, <<>>),
             MD(<<"L">>, TRUE,
                << FD(<<"key">>, KindString, <<>>, <<>>),
                   FD(<<"value">>, KindEnum, <<".", "t", ".", "H">>, <<>>) >>,
                <<>>, <<>>, <<>>),
             MD(<<"Q">>, FALSE, <<>>, <<>>, <<>>, <<>>) >>,
          <<>>, <<>>) >>,
    << ED(<<"H">>) >>,
    <<>>, <<>>)

\* f.proto, package u: an enum and a message with the same full name.
FileF ==
  FileD(<<"f">>, <<"u">>, <<>>,
    << MD(<<"X">>, FALSE, <<>>, <<>>, <<>>, <<>>),
       MD(<<"Y">>, FALSE,
          << FD(<<"a">>, KindEnum, <<".", "u", ".", "X">>, <<>>),
             FD(<<"b">>, KindMessage, <<".", "u", ".", "X">>, <<>>) >>,
          <<>>, <<>>, <<>>) >>,
    << ED(<<"X">>) >>,
    <<>>, <<>>)

\* g.proto, package p: declares p.M again (a.proto has it).
FileG ==
  FileD(<<"g">>, <<"p">>, <<>>,
    << MD(<<"M">>, FALSE, <<>>, <<>>, <<>>, <<>>) >>,
    <<>>, <<>>, <<>>)

\* h.proto, package v: the same message twice in one file.
FileH ==
  FileD(<<"h">>, <<"v">>, <<>>,
    << MD(<<"Z">>, FALSE, << FD(<<"z">>, KindMessage, <<".", "v", ".", "Z">>, <<>>) >>,
          <<>>, <<>>, <<>>),
       MD(<<"Z">>, FALSE, <<>>, <<>>, <<>>, <<>>) >>,
    <<>>, <<>>, <<>>)

\* i.proto, package w: a type name without the leading dot.
FileI ==
  FileD(<<"i">>, <<"w">>, <<>>,
    << MD(<<"W">>, FALSE, << FD(<<"w">>, KindMessage, <<"W">>, <<>>) >>,
          <<>>, <<>>, <<>>) >>,
    <<>>, <<>>, <<>>)

\* j.proto, package w: a type name nobody declares.
FileJ ==
  FileD(<<"j">>, <<"w">>, <<>>,
    << MD(<<"V">>, FALSE, << FD(<<"v">>, KindMessage, <<".", "w", ".", "U">>, <<>>) >>,
          <<>>, <<>>, <<>>) >>,
    <<>>, <<>>, <<>>)

\* k.proto: no package.
FileK ==
  FileD(<<"k">>, <<>>, <<>>,
    << MD(<<"R">>, FALSE, <<>>, <<>>, <<>>, <<>>) >>,
    <<>>, <<>>, <<>>)

\* l.proto, package x: a field with oneof index 0 in a message that declares
\* no oneof.
FileL ==
  FileD(<<"l">>, <<"x">>, <<>>,
    << MD(<<"A">>, FALSE,
          << InOneof(FD(<<"a">>, KindString, <<>>, <<>>), 0) >>,
          <<>>, <<>>, <<>>) >>,
    <<>>, <<>>, <<>>)

\* m.proto, package x: a field with oneof index 2 in a message with one oneof.
FileM ==
  FileD(<<"m">>, <<"x">>, <<>>,
    << WithOneofs(MD(<<"B">>, FALSE,
                     << InOneof(FD(<<"a">>, KindString, <<>>, <<>>), 0),
                        InOneof(FD(<<"b">>, KindString, <<>>, <<>>), 2) >>,
                     <<>>, <<>>, <<>>),
                  << <<"o">> >>) >>,
    <<>>, <<>>, <<>>)

\* n.proto, package x: a field whose label is not set.
FileN ==
  FileD(<<"n">>, <<"x">>, <<>>,
    << MD(<<"C">>, FALSE,
          << Labelled(FD(<<"a">>, KindString, <<>>, <<>>), 0) >>,
          <<>>, <<>>, <<>>) >>,
    <<>>, <<>>, <<>>)

\* o.proto, package o: imports e.proto and a.proto (in that order); two
\* oneofs whose members alternate with plain fields, repeated fields that are
\* not maps.
FileO ==
  FileD(<<"o">>, <<"o">>, << <<"e">>, <<"a">> >>,
    << WithOneofs(MD(<<"O">>, FALSE,
                     << InOneof(FD(<<"a">>, KindString, <<>>, <<>>), 1),
                        Labelled(FD(<<"b">>, KindString, <<>>, <<>>), LabelRepeated),
                        InOneof(FD(<<"c">>, KindString, <<>>, <<>>), 0),
                        InOneof(FD(<<"d">>, KindMessage, <<".", "p", ".", "M">>, <<>>), 1),
                        Labelled(FD(<<"e">>, KindMessage, <<".", "p", ".", "M">>, <<>>),
                                 LabelRepeated),
                        Labelled(FD(<<"f">>, KindMessage, <<".", "t", ".", "T", ".", "K">>, <<>>),
                                 LabelRepeated) >>,
                     <<>>, <<>>, <<>>),
                  << <<"x">>, <<"y">> >>) >>,
    <<>>, <<>>, <<>>)

FilePool ==
  {FileA, FileB, FileC, FileDd, FileE, FileF, FileG, FileH, FileI, FileJ, FileK,
   FileL, FileM, FileN, FileO}

RECURSIVE SeqsUpTo(_, _)
SeqsUpTo(S, n) ==
  IF n = 0 THEN {<<>>}
  ELSE LET shorter == SeqsUpTo(S, n - 1)
       IN shorter \cup {Append(s, x) : s \in shorter, x \in S}

\* A CodeGeneratorRequest: the proto files and the names to generate for.
Requests ==
  {[protoFile |-> fs, fileToGenerate |-> g] :
     fs \in SeqsUpTo(FilePool, MaxFiles),
     g \in {<<>>, << <<"a">> >>}}

\* ------------------------------------------------------------ object graph
VARIABLES
  request,    \* the decoded CodeGeneratorRequest
  pc,         \* position of Options.run: start, construct, register, resolve, done, failed
  cur,        \* index (1-based) of the file the loop of Options.run is at
  error,      \* the error that aborted the run, "none" otherwise
  registry,   \* the Registry: one map from name to object per kind
  files, messages, fields, enums, services, methods,  \* the objects, by identity
  filesToGenerate, \* Options.run's list of files to generate for
  log,        \* history: the register and resolve steps taken, in order
  first,      \* history: the first declaration registered per kind and key
  ncalls,     \* history: number of calls made on the Registry under test
  last        \* history: the last call made on the Registry under test

\* The generation callback and the response (Options.run after the loop)
VARIABLES
  generatedFiles, \* Plugin.generatedFiles: the buffers created so far
  stdout,         \* the responses written to process.stdout, in order
  invoked,        \* history: number of times the generation callback was called
  thrown          \* history: what the callback or a finalization threw, "none" otherwise

genVars == <<generatedFiles, stdout, invoked, thrown>>

\* The parameter string of the request and the map parsed from it
VARIABLES
  paramString, \* request.getParameter()
  params,      \* the Map<string, string> of parameters
  parsed       \* the parameter string has been parsed into params

paramVars == <<paramString, params, parsed>>

\* One GeneratedFile and the calls made on it
VARIABLES
  gf,         \* the GeneratedFile: jsImportPath, buf, importMark, imports
  gcalls,     \* history: number of P and qualifiedJSIdent calls made
  gret,       \* history: the last call and what it returned
  referenced, \* history: the import paths of the identifiers qualified so far
  results,    \* history: the pairs <<identifier, string returned for it>>
  finalized,  \* proto() has been called
  content,    \* the content of the file proto() made
  marks,      \* history: the number of lines at each printImports call
  firstRefs   \* history: <<import path, printImports calls made before>> of
              \* each foreign import path, in the order of first reference

bufVars == <<gf, gcalls, gret, referenced, results, finalized, content,
             marks, firstRefs>>

\* The variables of the other specifications of this module.
sideVars == <<paramVars, bufVars>>

vars == <<request, pc, cur, error, registry, files, messages, fields, enums,
          services, methods, filesToGenerate, log, first, ncalls, last,
          genVars, sideVars>>

EmptyFn == [x \in {} |-> NULL]

EmptyHeap ==
  [files |-> EmptyFn, messages |-> EmptyFn, fields |-> EmptyFn,
   enums |-> EmptyFn, services |-> EmptyFn, methods |-> EmptyFn,
   err |-> "none"]

\* The objects of two construction steps, h1 built before h2; a throw in h1
\* is the one that propagates.
Merge(h1, h2) ==
  [files |-> h1.files @@ h2.files, messages |-> h1.messages @@ h2.messages,
   fields |-> h1.fields @@ h2.fields, enums |-> h1.enums @@ h2.enums,
   services |-> h1.services @@ h2.services, methods |-> h1.methods @@ h2.methods,
   err |-> IF h1.err # "none" THEN h1.err ELSE h2.err]

Indices(s) == [k \in 1..Len(s) |-> k]

\* ids of the children built from list s under path number num: [...path, num, i]
ChildIds(id, num, s) == [k \in 1..Len(s) |-> id \o <<num, k - 1>>]

\* this.oneofs[oneofIdx] for an index past the end of the array
Undefined == <<-1>>

\* faulty variant: a label that is none of the three counts as optional
CardinalityOf_defaultOptional(label) ==
  CASE label = LabelRequired -> "Required"
    [] label = LabelRepeated -> "Repeated"
    [] OTHER -> "Optional"

\* switch (proto.getLabel() || 0) of the Field constructor
CardinalityOf(label) ==
  CASE label = LabelOptional -> "Optional"
    [] label = LabelRequired -> "Required"
    [] label = LabelRepeated -> "Repeated"
    [] OTHER -> "unrecognized"

NewField(proto, parent, scope, fx, oneof, id) ==
  IF CardinalityOf(proto.label) = "unrecognized"
  THEN [EmptyHeap EXCEPT !.err = "UnrecognizedLabel"]
  ELSE
  [EmptyHeap EXCEPT !.fields = id :>
     [name |-> proto.name,
      fullName |-> scope \o Dot \o proto.name,
      parent |-> parent,
      parentFile |-> <<fx>>,
      proto |-> proto,
      kind |-> proto.type,
      cardinality |-> CardinalityOf(proto.label),
      oneof |-> oneof,
      typeName |-> proto.typeName,
      extendeeName |-> proto.extendee,
      enumType |-> NULL,
      message |-> NULL,
      extendee |-> NULL]]

NewEnum(proto, parent, scope, fx, id) ==
  [EmptyHeap EXCEPT !.enums = id :>
     [name |-> proto.name,
      fullName |-> scope \o Dot \o proto.name,
      parentFile |-> <<fx>>,
      parent |-> parent]]

NewMethod(proto, parent, scope, id) ==
  [EmptyHeap EXCEPT !.methods = id :>
     [name |-> proto.name,
      fullName |-> scope \o Dot \o proto.name,
      grpcPath |-> <<"/">> \o scope \o <<"/", "{", "n", "a", "m", "e", "}">>,
      parent |-> parent,
      inputType |-> proto.inputType,
      outputType |-> proto.outputType,
      input |-> NULL,
      output |-> NULL]]

NewService(proto, pkg, fx, id) ==
  LET fullName == pkg \o Dot \o proto.name
      self == [EmptyHeap EXCEPT !.services = id :>
                 [name |-> proto.name,
                  fullName |-> fullName,
                  parentFile |-> <<fx>>,
                  methods |-> ChildIds(id, 2, proto.method)]]
  IN FoldSeq(LAMBDA h, k:
               Merge(h, NewMethod(proto.method[k], id, fullName, id \o <<2, k - 1>>)),
             self, Indices(proto.method))

\* new Oneof(oneofProtos[i], this, oneOfPath); this.oneofs.push(oneof)
NewOneofs(proto, id) ==
  [k \in 1..Len(proto.oneofDecl) |->
     [id |-> id \o <<8, k - 1>>, name |-> proto.oneofDecl[k], fields |-> <<>>]]

\* faulty variant: a field of a oneof is pushed to the oneof only
AddField_oneofOnly(h, proto, k, id, fullName, fx) ==
  LET fp == proto.field[k]
      fid == id \o <<2, k - 1>>
      oneofs == h.messages[id].oneofs
      oneofIdx == fp.oneofIndex
      oneof == IF oneofIdx < Len(oneofs) THEN oneofs[oneofIdx + 1].id ELSE Undefined
      h1 == Merge(h, NewField(fp, id, fullName, fx,
                              IF fp.hasOneofIndex THEN oneof ELSE NULL, fid))
  IN IF h.err # "none" THEN h
     ELSE IF fp.hasOneofIndex
     THEN IF Len(oneofs) < oneofIdx
          THEN [h EXCEPT !.err = "OneofIndexOutOfRange"]
          ELSE IF h1.err # "none" THEN h1
          ELSE IF oneof = Undefined THEN [h1 EXCEPT !.err = "TypeError"]
          ELSE [h1 EXCEPT !.messages[id].oneofs[oneofIdx + 1].fields = Append(@, fid)]
     ELSE IF h1.err # "none" THEN h1
     ELSE [h1 EXCEPT !.messages[id].fields = Append(@, fid)]

\* One turn of the loop over the field protos in Message.constructor.
\* oneof.fields.push(field) on this.oneofs[oneofIdx] === undefined is a
\* TypeError, thrown after the Field was constructed.
AddField(h, proto, k, id, fullName, fx) ==
  LET fp == proto.field[k]
      fid == id \o <<2, k - 1>>
      oneofs == h.messages[id].oneofs
      oneofIdx == fp.oneofIndex
      oneof == IF oneofIdx < Len(oneofs) THEN oneofs[oneofIdx + 1].id ELSE Undefined
      h1 == Merge(h, NewField(fp, id, fullName, fx,
                              IF fp.hasOneofIndex THEN oneof ELSE NULL, fid))
  IN IF h.err # "none" THEN h
     ELSE IF fp.hasOneofIndex
     THEN IF Len(oneofs) < oneofIdx
          THEN [h EXCEPT !.err = "OneofIndexOutOfRange"]
          ELSE IF h1.err # "none" THEN h1
          ELSE IF oneof = Undefined THEN [h1 EXCEPT !.err = "TypeError"]
          ELSE [h1 EXCEPT !.messages[id].oneofs[oneofIdx + 1].fields = Append(@, fid),
                          !.messages[id].fields = Append(@, fid)]
     ELSE IF h1.err # "none" THEN h1
     ELSE [h1 EXCEPT !.messages[id].fields = Append(@, fid)]

RECURSIVE NewMessage(_, _, _, _, _)
NewMessage(proto, parent, scope, fx, id) ==
  LET fullName == scope \o Dot \o proto.name
      self == [EmptyHeap EXCEPT !.messages = id :>
                 [name |-> proto.name,
                  fullName |-> fullName,
                  parentFile |-> <<fx>>,
                  parent |-> parent,
                  proto |-> proto,
                  oneofs |-> NewOneofs(proto, id),
                  fields |-> <<>>,
                  messages |-> ChildIds(id, 3, proto.nestedType),
                  enums |-> ChildIds(id, 4, proto.enumType),
                  extensions |-> ChildIds(id, 6, proto.extension),
                  mapEntry |-> proto.mapEntry]]
      h1 == FoldSeq(LAMBDA h, k: AddField(h, proto, k, id, fullName, fx),
                    self, Indices(proto.field))
      h2 == FoldSeq(LAMBDA h, k:
                      Merge(h, NewMessage(proto.nestedType[k], id, fullName, fx, id \o <<3, k - 1>>)),
                    h1, Indices(proto.nestedType))
      h3 == FoldSeq(LAMBDA h, k:
                      Merge(h, NewEnum(proto.enumType[k], id, fullName, fx, id \o <<4, k - 1>>)),
                    h2, Indices(proto.enumType))
  IN FoldSeq(LAMBDA h, k:
               Merge(h, NewField(proto.extension[k], id, fullName, fx, NULL, id \o <<6, k - 1>>)),
             h3, Indices(proto.extension))

\* faulty variant: a file without package is constructed like any other
NewFile_anyPackage(proto, generate, fx) ==
  LET id == <<fx>>
      pkg == proto.package
      self == [EmptyHeap EXCEPT !.files = id :>
                 [name |-> proto.name,
                  packageName |-> pkg,
                  generate |-> generate,
                  dependencyNames |-> proto.dependency,
                  dependencies |-> <<>>,
                  messages |-> ChildIds(id, 4, proto.messageType),
                  enums |-> ChildIds(id, 5, proto.enumType),
                  services |-> ChildIds(id, 6, proto.service),
                  extensions |-> ChildIds(id, 7, proto.extension)]]
      h1 == FoldSeq(LAMBDA h, k:
                      Merge(h, NewMessage(proto.messageType[k], NULL, pkg, fx, id \o <<4, k - 1>>)),
                    self, Indices(proto.messageType))
      h2 == FoldSeq(LAMBDA h, k:
                      Merge(h, NewEnum(proto.enumType[k], NULL, pkg, fx, id \o <<5, k - 1>>)),
                    h1, Indices(proto.enumType))
      h3 == FoldSeq(LAMBDA h, k:
                      Merge(h, NewService(proto.service[k], pkg, fx, id \o <<6, k - 1>>)),
                    h2, Indices(proto.service))
      h4 == FoldSeq(LAMBDA h, k:
                      Merge(h, NewField(proto.extension[k], NULL, pkg, fx, NULL, id \o <<7, k - 1>>)),
                    h3, Indices(proto.extension))
  IN IF proto.name = <<>> THEN [EmptyHeap EXCEPT !.err = "MissingName"]
     ELSE h4

\* new File(fileProto, generate, jsImportFunc): the file and everything it owns.
NewFile(proto, generate, fx) ==
  LET id == <<fx>>
      pkg == proto.package
      self == [EmptyHeap EXCEPT !.files = id :>
                 [name |-> proto.name,
                  packageName |-> pkg,
                  generate |-> generate,
                  dependencyNames |-> proto.dependency,
                  dependencies |-> <<>>,
                  messages |-> ChildIds(id, 4, proto.messageType),
                  enums |-> ChildIds(id, 5, proto.enumType),
                  services |-> ChildIds(id, 6, proto.service),
                  extensions |-> ChildIds(id, 7, proto.extension)]]
      h1 == FoldSeq(LAMBDA h, k:
                      Merge(h, NewMessage(proto.messageType[k], NULL, pkg, fx, id \o <<4, k - 1>>)),
                    self, Indices(proto.messageType))
      h2 == FoldSeq(LAMBDA h, k:
                      Merge(h, NewEnum(proto.enumType[k], NULL, pkg, fx, id \o <<5, k - 1>>)),
                    h1, Indices(proto.enumType))
      h3 == FoldSeq(LAMBDA h, k:
                      Merge(h, NewService(proto.service[k], pkg, fx, id \o <<6, k - 1>>)),
                    h2, Indices(proto.service))
      h4 == FoldSeq(LAMBDA h, k:
                      Merge(h, NewField(proto.extension[k], NULL, pkg, fx, NULL, id \o <<7, k - 1>>)),
                    h3, Indices(proto.extension))
  IN IF proto.name = <<>> THEN [EmptyHeap EXCEPT !.err = "MissingName"]
     ELSE IF pkg = <<>> THEN [EmptyHeap EXCEPT !.err = "MissingPackage"]
     ELSE h4

\* ---------------------------------------------------------------- Registry
EmptyRegistry ==
  [files |-> EmptyFn, messages |-> EmptyFn, enums |-> EmptyFn,
   services |-> EmptyFn, extensions |-> EmptyFn]

\* Map.has, Map.set and Map.get(k) ?? null
MapHas(map, k) == k \in DOMAIN map
MapSet(map, k, v) == [x \in DOMAIN map \cup {k} |-> IF x = k THEN v ELSE map[x]]
MapGet(map, k) == IF k \in DOMAIN map THEN map[k] ELSE NULL

\* The outcome of a call on the registry: the registry after it, and the
\* error it threw ("none" when it returned).
Returned(reg) == [reg |-> reg, err |-> "none"]
Threw(reg, e) == [reg |-> reg, err |-> e]

_registerFile(reg, name, file) ==
  IF MapHas(reg.files, name) THEN Threw(reg, "DuplicateRegistration")
  ELSE Returned([reg EXCEPT !.files = MapSet(@, name, file)])

_registerService(reg, fullName, service) ==
  IF MapHas(reg.services, fullName) THEN Threw(reg, "DuplicateRegistration")
  ELSE Returned([reg EXCEPT !.services = MapSet(@, fullName, service)])

_registerEnum(reg, fullName, enumType) ==
  IF MapHas(reg.enums, fullName) THEN Threw(reg, "DuplicateRegistration")
  ELSE Returned([reg EXCEPT !.enums = MapSet(@, fullName, enumType)])

\* faulty variant: the duplicate is reported but the entry is overwritten
_registerMessage_overwrite(reg, fullName, message) ==
  IF MapHas(reg.messages, fullName)
  THEN Threw([reg EXCEPT !.messages = MapSet(@, fullName, message)], "DuplicateRegistration")
  ELSE Returned([reg EXCEPT !.messages = MapSet(@, fullName, message)])

_registerMessage(reg, fullName, message) ==
  IF MapHas(reg.messages, fullName) THEN Threw(reg, "DuplicateRegistration")
  ELSE Returned([reg EXCEPT !.messages = MapSet(@, fullName, message)])

_registerExtension(reg, fullName, extension) ==
  IF MapHas(reg.extensions, fullName) THEN Threw(reg, "DuplicateRegistration")
  ELSE Returned([reg EXCEPT !.extensions = MapSet(@, fullName, extension)])

fileByName(reg, fullName) == MapGet(reg.files, fullName)
serviceByName(reg, fullName) == MapGet(reg.services, fullName)
messageByName(reg, fullName) == MapGet(reg.messages, fullName)
enumByName(reg, fullName) == MapGet(reg.enums, fullName)
extensionByName(reg, fullName) == MapGet(reg.extensions, fullName)

\* String.charAt(0): the empty string for an empty string
CharAt0(str) == IF str = <<>> THEN <<>> ELSE <<Head(str)>>

\* The outcome of a name resolution: the value returned, the error thrown
\* ("none" when it returned) and the names it looked up, in order.
resolveEnumTypeName(reg, reference, enumType) ==
  IF CharAt0(enumType) = Dot
  THEN [val |-> enumByName(reg, Tail(enumType)), err |-> "none",
        probes |-> <<Tail(enumType)>>]
  ELSE [val |-> NULL, err |-> "NotImplemented", probes |-> <<>>]

\* faulty variant: the leading '.' is not stripped before the lookup
resolveMessageTypeName_noSlice(reg, reference, messageType) ==
  IF CharAt0(messageType) = Dot
  THEN [val |-> messageByName(reg, messageType), err |-> "none",
        probes |-> <<Tail(messageType)>>]
  ELSE [val |-> NULL, err |-> "NotImplemented", probes |-> <<>>]

resolveMessageTypeName(reg, reference, messageType) ==
  IF CharAt0(messageType) = Dot
  THEN [val |-> messageByName(reg, Tail(messageType)), err |-> "none",
        probes |-> <<Tail(messageType)>>]
  ELSE [val |-> NULL, err |-> "NotImplemented", probes |-> <<>>]

\* ------------------------------------------------------------ register walk
\* One statement of a walk: skipped when an earlier statement threw.
Seq1(st, Op(_)) == IF st.err # "none" THEN st ELSE Op(st.reg)

Service_register(reg, s) == _registerService(reg, services[s].fullName, s)

Message_register(reg, m) ==
  LET s0 == _registerMessage(reg, messages[m].fullName, m)
      s1 == FoldSeq(LAMBDA st, n:
                      Seq1(st, LAMBDA r: _registerMessage(r, messages[n].fullName, n)),
                    s0, messages[m].messages)
      s2 == FoldSeq(LAMBDA st, e:
                      Seq1(st, LAMBDA r: _registerEnum(r, enums[e].fullName, e)),
                    s1, messages[m].enums)
  IN FoldSeq(LAMBDA st, e:
               Seq1(st, LAMBDA r: _registerExtension(r, fields[e].fullName, e)),
             s2, messages[m].extensions)

File_register(reg, f) ==
  LET s0 == _registerFile(reg, files[f].name, f)
      s1 == FoldSeq(LAMBDA st, m: Seq1(st, LAMBDA r: Message_register(r, m)),
                    s0, files[f].messages)
      s2 == FoldSeq(LAMBDA st, e:
                      Seq1(st, LAMBDA r: _registerEnum(r, enums[e].fullName, e)),
                    s1, files[f].enums)
      s3 == FoldSeq(LAMBDA st, s: Seq1(st, LAMBDA r: Service_register(r, s)),
                    s2, files[f].services)
  IN FoldSeq(LAMBDA st, e:
               Seq1(st, LAMBDA r: _registerExtension(r, fields[e].fullName, e)),
             s3, files[f].extensions)

\* ------------------------------------------------------------- resolve walk
\* The state a resolve walk works on: the mutable objects, the steps taken so
\* far and the error thrown ("none" while it runs).
Event(op, id) == [op |-> op, id |-> id]

Seq2(st, Op(_)) == IF st.err # "none" THEN st ELSE Op(st)

\* faulty variant: the message is looked up also when an enum was found
Field_resolve_both(st0, reg, f) ==
  LET st == [st0 EXCEPT !.log = Append(@, Event("Field._resolve", f))]
      typeName == st.fields[f].typeName
      fullName == st.fields[f].fullName
      re == resolveEnumTypeName(reg, fullName, typeName)
      rm == resolveMessageTypeName(reg, fullName, typeName)
      t1 == IF typeName = <<>> THEN st
            ELSE IF re.err # "none" THEN [st EXCEPT !.err = re.err]
            ELSE IF rm.err # "none" THEN [st EXCEPT !.err = rm.err]
            ELSE IF re.val = NULL /\ rm.val = NULL
            THEN [st EXCEPT !.err = "UnresolvedReference"]
            ELSE [st EXCEPT !.fields[f].enumType = re.val, !.fields[f].message = rm.val]
      extendee == st.fields[f].extendeeName
      rx == resolveMessageTypeName(reg, fullName, extendee)
  IN IF t1.err # "none" \/ extendee = <<>> THEN t1
     ELSE IF rx.err # "none" THEN [t1 EXCEPT !.err = rx.err]
     ELSE IF rx.val = NULL THEN [t1 EXCEPT !.err = "UnresolvedReference"]
     ELSE [t1 EXCEPT !.fields[f].extendee = rx.val]

Field_resolve(st0, reg, f) ==
  LET st == [st0 EXCEPT !.log = Append(@, Event("Field._resolve", f))]
      typeName == st.fields[f].typeName
      fullName == st.fields[f].fullName
      re == resolveEnumTypeName(reg, fullName, typeName)
      rm == resolveMessageTypeName(reg, fullName, typeName)
      t1 == IF typeName = <<>> THEN st
            ELSE IF re.err # "none" THEN [st EXCEPT !.err = re.err]
            ELSE IF re.val # NULL THEN [st EXCEPT !.fields[f].enumType = re.val]
            ELSE IF rm.err # "none" THEN [st EXCEPT !.err = rm.err]
            ELSE IF rm.val # NULL THEN [st EXCEPT !.fields[f].message = rm.val]
            ELSE [st EXCEPT !.err = "UnresolvedReference"]
      extendee == st.fields[f].extendeeName
      rx == resolveMessageTypeName(reg, fullName, extendee)
  IN IF t1.err # "none" \/ extendee = <<>> THEN t1
     ELSE IF rx.err # "none" THEN [t1 EXCEPT !.err = rx.err]
     ELSE IF rx.val = NULL THEN [t1 EXCEPT !.err = "UnresolvedReference"]
     ELSE [t1 EXCEPT !.fields[f].extendee = rx.val]

Method_resolve(st0, reg, m) ==
  LET st == [st0 EXCEPT !.log = Append(@, Event("Method._resolve", m))]
      fullName == st.methods[m].fullName
      ri == resolveMessageTypeName(reg, fullName, st.methods[m].inputType)
      ro == resolveMessageTypeName(reg, fullName, st.methods[m].outputType)
      t1 == IF ri.err # "none" THEN [st EXCEPT !.err = ri.err]
            ELSE IF ri.val = NULL THEN [st EXCEPT !.err = "UnresolvedReference"]
            ELSE [st EXCEPT !.methods[m].input = ri.val]
  IN IF t1.err # "none" THEN t1
     ELSE IF ro.err # "none" THEN [t1 EXCEPT !.err = ro.err]
     ELSE IF ro.val = NULL THEN [t1 EXCEPT !.err = "UnresolvedReference"]
     ELSE [t1 EXCEPT !.methods[m].output = ro.val]

Service_resolve(st, reg, s) ==
  FoldSeq(LAMBDA t, m: Seq2(t, LAMBDA u: Method_resolve(u, reg, m)),
          st, services[s].methods)

\* Array.splice(i, 1)
Splice1(list, i) == [k \in 1..(Len(list) - 1) |-> IF k < i THEN list[k] ELSE list[k + 1]]

\* let i = this.messages.length; while (i--) { ... splice(i, 1) ... }
\* (i counts the elements not yet visited; the element visited is list[i])
\* faulty variant: while (--i): the first element of the list is never visited
RECURSIVE RemoveMapEntries_preDecrement(_, _, _)
RemoveMapEntries_preDecrement(st, m, i) ==
  IF i <= 1 THEN st
  ELSE LET n == st.messages[m].messages[i]
       IN IF st.messages[n].mapEntry
          THEN RemoveMapEntries_preDecrement(
                 [st EXCEPT !.messages[m].messages = Splice1(@, i),
                            !.log = Append(@, Event("remove", n))],
                 m, i - 1)
          ELSE RemoveMapEntries_preDecrement(st, m, i - 1)

RECURSIVE RemoveMapEntries(_, _, _)
RemoveMapEntries(st, m, i) ==
  IF i = 0 THEN st
  ELSE LET n == st.messages[m].messages[i]
       IN IF st.messages[n].mapEntry
          THEN RemoveMapEntries(
                 [st EXCEPT !.messages[m].messages = Splice1(@, i),
                            !.log = Append(@, Event("remove", n))],
                 m, i - 1)
          ELSE RemoveMapEntries(st, m, i - 1)

\* faulty variant: the nested messages are not resolved (as in Message._register,
\* which does not recurse)
Message_resolve_flat(st, reg, m) ==
  LET t2 == FoldSeq(LAMBDA t, f: Seq2(t, LAMBDA u: Field_resolve(u, reg, f)),
                    st, st.messages[m].fields)
      t3 == FoldSeq(LAMBDA t, e: Seq2(t, LAMBDA u: Field_resolve(u, reg, e)),
                    t2, st.messages[m].extensions)
  IN Seq2(t3, LAMBDA u: RemoveMapEntries(u, m, Len(u.messages[m].messages)))

RECURSIVE Message_resolve(_, _, _)
Message_resolve(st, reg, m) ==
  LET t1 == FoldSeq(LAMBDA t, n: Seq2(t, LAMBDA u: Message_resolve(u, reg, n)),
                    st, st.messages[m].messages)
      t2 == FoldSeq(LAMBDA t, f: Seq2(t, LAMBDA u: Field_resolve(u, reg, f)),
                    t1, st.messages[m].fields)
      t3 == FoldSeq(LAMBDA t, e: Seq2(t, LAMBDA u: Field_resolve(u, reg, e)),
                    t2, st.messages[m].extensions)
  IN Seq2(t3, LAMBDA u: RemoveMapEntries(u, m, Len(u.messages[m].messages)))

\* faulty variant: each resolved dependency is put at the front of the list
File_resolve_unshift(st, reg, f) ==
  LET t1 == FoldSeq(LAMBDA t, depName:
                      Seq2(t, LAMBDA u:
                        IF fileByName(reg, depName) = NULL
                        THEN [u EXCEPT !.err = "UnresolvedReference"]
                        ELSE [u EXCEPT !.files[f].dependencies =
                                         <<fileByName(reg, depName)>> \o @]),
                    st, st.files[f].dependencyNames)
      t2 == FoldSeq(LAMBDA t, m: Seq2(t, LAMBDA u: Message_resolve(u, reg, m)),
                    t1, st.files[f].messages)
      t3 == FoldSeq(LAMBDA t, s: Seq2(t, LAMBDA u: Service_resolve(u, reg, s)),
                    t2, st.files[f].services)
  IN FoldSeq(LAMBDA t, e: Seq2(t, LAMBDA u: Field_resolve(u, reg, e)),
             t3, st.files[f].extensions)

File_resolve(st, reg, f) ==
  LET t1 == FoldSeq(LAMBDA t, depName:
                      Seq2(t, LAMBDA u:
                        IF fileByName(reg, depName) = NULL
                        THEN [u EXCEPT !.err = "UnresolvedReference"]
                        ELSE [u EXCEPT !.files[f].dependencies =
                                         Append(@, fileByName(reg, depName))]),
                    st, st.files[f].dependencyNames)
      t2 == FoldSeq(LAMBDA t, m: Seq2(t, LAMBDA u: Message_resolve(u, reg, m)),
                    t1, st.files[f].messages)
      t3 == FoldSeq(LAMBDA t, s: Seq2(t, LAMBDA u: Service_resolve(u, reg, s)),
                    t2, st.files[f].services)
  IN FoldSeq(LAMBDA t, e: Seq2(t, LAMBDA u: Field_resolve(u, reg, e)),
             t3, st.files[f].extensions)

\* ------------------------------------------------------------- Options.run
NoCall == [op |-> "none"]

Init ==
  /\ request \in Requests
  /\ pc = "start"
  /\ cur = 1
  /\ error = "none"
  /\ registry = EmptyRegistry
  /\ files = EmptyFn /\ messages = EmptyFn /\ fields = EmptyFn
  /\ enums = EmptyFn /\ services = EmptyFn /\ methods = EmptyFn
  /\ filesToGenerate = <<>>
  /\ log = <<>>
  /\ first = EmptyRegistry
  /\ ncalls = 0
  /\ last = NoCall
  /\ generatedFiles = <<>> /\ stdout = <<>> /\ invoked = 0 /\ thrown = "none"
  /\ paramString = <<>> /\ params = <<>> /\ parsed = FALSE
  /\ gf = <<>> /\ gcalls = 0 /\ gret = NoCall /\ referenced = {} /\ results = {}
  /\ finalized = FALSE /\ content = <<>>
  /\ marks = <<>> /\ firstRefs = <<>>

Includes(list, x) == \E k \in DOMAIN list : list[k] = x

\* The checks on the request before the loop over the proto files.
Start ==
  /\ pc = "start"
  /\ IF Len(request.protoFile) = 0
     THEN pc' = "failed" /\ error' = "NoProtoFiles"
     ELSE IF Len(request.fileToGenerate) = 0
     THEN pc' = "failed" /\ error' = "NoFilesToGenerate"
     ELSE pc' = "construct" /\ error' = error
  /\ UNCHANGED <<request, cur, registry, files, messages, fields, enums,
                 services, methods, filesToGenerate, log, first, ncalls, last>>
  /\ UNCHANGED <<genVars, sideVars>>

\* let file = new File(fileProto, generate, this.jsImportFunc)
Construct ==
  /\ pc = "construct"
  /\ LET proto == request.protoFile[cur]
         generate == Includes(request.fileToGenerate, proto.name)
         h == NewFile(proto, generate, cur)
     IN IF h.err # "none"
        THEN /\ pc' = "failed" /\ error' = h.err
             /\ UNCHANGED <<files, messages, fields, enums, services, methods>>
        ELSE /\ pc' = "register" /\ error' = error
             /\ files' = files @@ h.files
             /\ messages' = messages @@ h.messages
             /\ fields' = fields @@ h.fields
             /\ enums' = enums @@ h.enums
             /\ services' = services @@ h.services
             /\ methods' = methods @@ h.methods
  /\ UNCHANGED <<request, cur, registry, filesToGenerate, log, first, ncalls, last>>
  /\ UNCHANGED <<genVars, sideVars>>

\* file._register(registry)
Register ==
  /\ pc = "register"
  /\ LET r == File_register(registry, <<cur>>)
     IN /\ registry' = r.reg
        /\ IF r.err # "none"
           THEN pc' = "failed" /\ error' = r.err
           ELSE pc' = "resolve" /\ error' = error
  /\ log' = Append(log, Event("File._register", <<cur>>))
  /\ UNCHANGED <<request, cur, files, messages, fields, enums, services,
                 methods, filesToGenerate, first, ncalls, last>>
  /\ UNCHANGED <<genVars, sideVars>>

\* faulty variant: the map entries removed from their owners are removed from
\* the registry as well
Resolve_unregister ==
  /\ pc = "resolve"
  /\ LET st == [files |-> files, messages |-> messages, fields |-> fields,
                methods |-> methods, err |-> "none",
                log |-> Append(log, Event("File._resolve", <<cur>>))]
         t == File_resolve(st, registry, <<cur>>)
     IN /\ files' = t.files
        /\ messages' = t.messages
        /\ fields' = t.fields
        /\ methods' = t.methods
        /\ log' = t.log
        /\ registry' = [registry EXCEPT !.messages =
                          [k \in {j \in DOMAIN @ : Event("remove", @[j]) \notin Range(t.log)}
                             |-> @[k]]]
        /\ IF t.err # "none"
           THEN /\ pc' = "failed" /\ error' = t.err
                /\ UNCHANGED <<cur, filesToGenerate>>
           ELSE /\ error' = error
                /\ filesToGenerate' = IF files[<<cur>>].generate
                                      THEN Append(filesToGenerate, <<cur>>)
                                      ELSE filesToGenerate
                /\ cur' = cur + 1
                /\ pc' = IF cur = Len(request.protoFile) THEN "done" ELSE "construct"
  /\ UNCHANGED <<request, enums, services, first, ncalls, last>>
  /\ UNCHANGED <<genVars, sideVars>>

\* file._resolve(registry); if (generate) filesToGenerate.push(file); next file
Resolve ==
  /\ pc = "resolve"
  /\ LET st == [files |-> files, messages |-> messages, fields |-> fields,
                methods |-> methods, err |-> "none",
                log |-> Append(log, Event("File._resolve", <<cur>>))]
         t == File_resolve(st, registry, <<cur>>)
     IN /\ files' = t.files
        /\ messages' = t.messages
        /\ fields' = t.fields
        /\ methods' = t.methods
        /\ log' = t.log
        /\ IF t.err # "none"
           THEN /\ pc' = "failed" /\ error' = t.err
                /\ UNCHANGED <<cur, filesToGenerate>>
           ELSE /\ error' = error
                /\ filesToGenerate' = IF files[<<cur>>].generate
                                      THEN Append(filesToGenerate, <<cur>>)
                                      ELSE filesToGenerate
                /\ cur' = cur + 1
                /\ pc' = IF cur = Len(request.protoFile) THEN "done" ELSE "construct"
  /\ UNCHANGED <<request, registry, enums, services, first, ncalls, last>>
  /\ UNCHANGED <<genVars, sideVars>>

\* ------------------------------------- Options.run: callback and response
\* Most buffers a generation callback creates.
MaxBuffers == 2

graphVars == <<request, cur, error, registry, files, messages, fields, enums,
               services, methods, filesToGenerate, log, first, ncalls, last>>

\* The name of the k-th generated file.
GenName(k) == [j \in 1..k |-> "g"]

\* GeneratedFile.proto(): the file of the response made from a buffer; the
\* function given to doBeforeResponse may throw.
GeneratedFile_proto(g) ==
  IF g.beforeResponseThrows
  THEN [val |-> NULL, err |-> "beforeResponse failed"]
  ELSE [val |-> [name |-> g.filename, content |-> g.buf], err |-> "none"]

\* Plugin.response(): a new CodeGeneratorResponse with g.proto() of every
\* generated file; a throw of one g.proto() leaves no response.
Plugin_response(gs) ==
  FoldSeq(LAMBDA r, g:
            IF r.err # "none" THEN r
            ELSE LET f == GeneratedFile_proto(g)
                 IN IF f.err # "none" THEN [val |-> NULL, err |-> f.err]
                    ELSE [r EXCEPT !.val.file = Append(@, f.val)],
          [val |-> [file |-> <<>>, error |-> <<>>], err |-> "none"], gs)

\* faulty variant: the files collected so far stay in the error response
ErrorResponse_keepFiles(gs, e) ==
  [file |-> [k \in 1..Len(gs) |-> [name |-> gs[k].filename, content |-> gs[k].buf]],
   error |-> <<"Plugin exited with error: ", e>>]

\* catch (e) { response = new CodeGeneratorResponse(); response.setError(...) }
ErrorResponse(gs, e) ==
  [file |-> <<>>, error |-> <<"Plugin exited with error: ", e>>]

\* faulty variant: the callback is called whether or not the graph was built
InvokeCallback_always ==
  /\ pc \in {"done", "failed"}
  /\ pc' = "callback"
  /\ invoked' = invoked + 1
  /\ UNCHANGED <<graphVars, generatedFiles, stdout, thrown, sideVars>>

\* const plugin = new Plugin(params, filesToGenerate, registry); f(plugin)
InvokeCallback ==
  /\ pc = "done"
  /\ pc' = "callback"
  /\ invoked' = invoked + 1
  /\ UNCHANGED <<graphVars, generatedFiles, stdout, thrown, sideVars>>

\* The callback creates a buffer and prints a line to it:
\* g = plugin.newGeneratedFile(...); g.P("x"); with or without a
\* g.doBeforeResponse(f) whose f throws.
NewGeneratedFile ==
  /\ pc = "callback"
  /\ Len(generatedFiles) < MaxBuffers
  /\ \E throws \in BOOLEAN :
       generatedFiles' = Append(generatedFiles,
                                [filename |-> GenName(Len(generatedFiles) + 1),
                                 buf |-> <<"x">>,
                                 beforeResponseThrows |-> throws])
  /\ UNCHANGED <<pc, graphVars, stdout, invoked, thrown, sideVars>>

\* The callback throws: the catch block makes the response, which is written.
CallbackThrows ==
  /\ pc = "callback"
  /\ pc' = "exit"
  /\ thrown' = "callback failed"
  /\ stdout' = Append(stdout, ErrorResponse(generatedFiles, "callback failed"))
  /\ UNCHANGED <<graphVars, generatedFiles, invoked, sideVars>>

\* The callback returns: response = plugin.response(), or the response of the
\* catch block when a finalization throws; the response is written.
CallbackReturns ==
  /\ pc = "callback"
  /\ pc' = "exit"
  /\ LET r == Plugin_response(generatedFiles)
     IN /\ thrown' = r.err
        /\ stdout' = Append(stdout, IF r.err # "none"
                                    THEN ErrorResponse(generatedFiles, r.err)
                                    ELSE r.val)
  /\ UNCHANGED <<graphVars, generatedFiles, invoked, sideVars>>

Next ==
  \/ Start \/ Construct \/ Register \/ Resolve
  \/ InvokeCallback \/ NewGeneratedFile \/ CallbackThrows \/ CallbackReturns

Spec == Init /\ [][Next]_vars

TypeOK ==
  /\ pc \in {"start", "construct", "register", "resolve", "done", "failed",
            "callback", "exit"}
  /\ cur \in 1..(MaxFiles + 1)
  /\ (pc = "failed") = (error # "none")

\* ------------------------------------------- the Registry and resolver alone
\* Calls made directly on one Registry: any register call with any key and
\* declaration, and the two name resolvers with any reference and type name.
RKinds == {"files", "messages", "enums", "services", "extensions"}
RKeys == {<<"p", ".", "M">>, <<"M">>}
RDecls == {<<1>>, <<2>>}
RReferences == {<<"p", ".", "A">>, <<>>}
RTypeNames == {<<".", "p", ".", "M">>, <<".", "M">>, <<".">>, <<"M">>, <<"p", ".", "M">>, <<>>}

RegisterCall(reg, kind, key, decl) ==
  CASE kind = "files" -> _registerFile(reg, key, decl)
    [] kind = "messages" -> _registerMessage(reg, key, decl)
    [] kind = "enums" -> _registerEnum(reg, key, decl)
    [] kind = "services" -> _registerService(reg, key, decl)
    [] kind = "extensions" -> _registerExtension(reg, key, decl)

Lookup(reg, kind, key) ==
  CASE kind = "files" -> fileByName(reg, key)
    [] kind = "messages" -> messageByName(reg, key)
    [] kind = "enums" -> enumByName(reg, key)
    [] kind = "services" -> serviceByName(reg, key)
    [] kind = "extensions" -> extensionByName(reg, key)

buildVars == <<request, pc, cur, error, files, messages, fields, enums,
               services, methods, filesToGenerate, log, genVars, sideVars>>

InitRegistry ==
  /\ request = [protoFile |-> <<>>, fileToGenerate |-> <<>>]
  /\ pc = "done"
  /\ cur = 1
  /\ error = "none"
  /\ registry = EmptyRegistry
  /\ files = EmptyFn /\ messages = EmptyFn /\ fields = EmptyFn
  /\ enums = EmptyFn /\ services = EmptyFn /\ methods = EmptyFn
  /\ filesToGenerate = <<>>
  /\ log = <<>>
  /\ first = EmptyRegistry
  /\ ncalls = 0
  /\ last = NoCall
  /\ generatedFiles = <<>> /\ stdout = <<>> /\ invoked = 0 /\ thrown = "none"
  /\ paramString = <<>> /\ params = <<>> /\ parsed = FALSE
  /\ gf = <<>> /\ gcalls = 0 /\ gret = NoCall /\ referenced = {} /\ results = {}
  /\ finalized = FALSE /\ content = <<>>
  /\ marks = <<>> /\ firstRefs = <<>>

CallRegister ==
  \E kind \in RKinds, key \in RKeys, decl \in RDecls :
    /\ ncalls < MaxCalls
    /\ LET r == RegisterCall(registry, kind, key, decl)
       IN /\ registry' = r.reg
          /\ last' = [op |-> "register", kind |-> kind, key |-> key,
                      decl |-> decl, err |-> r.err]
    /\ first' = IF key \in DOMAIN first[kind] THEN first
                ELSE [first EXCEPT ![kind] = MapSet(@, key, decl)]
    /\ ncalls' = ncalls + 1
    /\ UNCHANGED buildVars

CallResolveEnum ==
  \E reference \in RReferences, typeName \in RTypeNames :
    /\ last' = [op |-> "resolveEnumTypeName", kind |-> "enums",
                reference |-> reference, typeName |-> typeName,
                res |-> resolveEnumTypeName(registry, reference, typeName)]
    /\ UNCHANGED <<registry, first, ncalls>>
    /\ UNCHANGED buildVars

CallResolveMessage ==
  \E reference \in RReferences, typeName \in RTypeNames :
    /\ last' = [op |-> "resolveMessageTypeName", kind |-> "messages",
                reference |-> reference, typeName |-> typeName,
                res |-> resolveMessageTypeName(registry, reference, typeName)]
    /\ UNCHANGED <<registry, first, ncalls>>
    /\ UNCHANGED buildVars

NextRegistry == CallRegister \/ CallResolveEnum \/ CallResolveMessage

SpecRegistry == InitRegistry /\ [][NextRegistry]_vars

\* ------------------------------------------------- the parameter string
\* Longest parameter string and the characters it is made of.
MaxParamLen == 4
ParamChars == {"k", "v", "=", ","}

RECURSIVE StringsUpTo(_, _)
StringsUpTo(chars, n) ==
  IF n = 0 THEN {<<>>}
  ELSE LET shorter == StringsUpTo(chars, n - 1)
       IN shorter \cup {Append(str, c) : str \in shorter, c \in chars}

\* Position of the first c in str, 0 when there is none.
IndexOf(str, c) ==
  IF \E k \in DOMAIN str : str[k] = c
  THEN CHOOSE k \in DOMAIN str : str[k] = c /\ \A j \in 1..(k - 1) : str[j] # c
  ELSE 0

\* String.prototype.split(separator) for a separator of one character
RECURSIVE Split(_, _)
Split(str, separator) ==
  LET i == IndexOf(str, separator)
  IN IF i = 0 THEN <<str>>
     ELSE <<SubSeq(str, 1, i - 1)>> \o Split(SubSeq(str, i + 1, Len(str)), separator)

\* String.prototype.split(separator, limit): the first limit pieces
SplitLimit(str, separator, limit) ==
  LET pieces == Split(str, separator)
  IN SubSeq(pieces, 1, IF Len(pieces) < limit THEN Len(pieces) ELSE limit)

\* The parsing of the parameter string in Options.run.
ParseParameters(str) ==
  IF str = <<>> THEN EmptyFn
  ELSE FoldSeq(LAMBDA ps, param:
                 IF param = <<>> THEN ps
                 ELSE LET split == SplitLimit(param, "=", 2)
                      IN IF Len(split) = 1 THEN MapSet(ps, split[1], <<>>)
                         ELSE MapSet(ps, split[1], split[2]),
               EmptyFn, Split(str, ","))

InitParams ==
  /\ request = [protoFile |-> <<>>, fileToGenerate |-> <<>>]
  /\ pc = "start"
  /\ cur = 1
  /\ error = "none"
  /\ registry = EmptyRegistry
  /\ files = EmptyFn /\ messages = EmptyFn /\ fields = EmptyFn
  /\ enums = EmptyFn /\ services = EmptyFn /\ methods = EmptyFn
  /\ filesToGenerate = <<>>
  /\ log = <<>>
  /\ first = EmptyRegistry
  /\ ncalls = 0
  /\ last = NoCall
  /\ generatedFiles = <<>> /\ stdout = <<>> /\ invoked = 0 /\ thrown = "none"
  /\ paramString \in StringsUpTo(ParamChars, MaxParamLen)
  /\ params = EmptyFn
  /\ parsed = FALSE
  /\ gf = <<>> /\ gcalls = 0 /\ gret = NoCall /\ referenced = {} /\ results = {}
  /\ finalized = FALSE /\ content = <<>>
  /\ marks = <<>> /\ firstRefs = <<>>

\* let params = new Map(); ... for (let param of paramString.split(",")) ...
ParseParameterString ==
  /\ ~parsed
  /\ params' = ParseParameters(paramString)
  /\ parsed' = TRUE
  /\ UNCHANGED <<paramString, pc, graphVars, genVars, bufVars>>

NextParams == ParseParameterString

SpecParams == InitParams /\ [][NextParams]_vars

\* ------------------------------------------- GeneratedFile and its imports
\* Most P and qualifiedJSIdent calls made on the buffer.
MaxOps == 3

\* new JSImportPath(path, npmModule, npmPathUnderModule)
JSImportPath(path, npmModule, npmPathUnderModule) ==
  [path |-> path, npmModule |-> npmModule, npmPathUnderModule |-> npmPathUnderModule]

\* new JSIdent(importPath, name)
JSIdent(importPath, name) == [importPath |-> importPath, name |-> name]

\* JSImportPath.equals
equals(this, other) == this.npmModule = other.npmModule /\ this.path = other.path

\* str.replace(/[chars]/g, "_")
ReplaceAll(str, chars) == [k \in DOMAIN str |-> IF str[k] \in chars THEN "_" ELSE str[k]]

\* str.replace(/c/g, "")
RemoveAll(str, c) == SelectSeq(str, LAMBDA x : x # c)

aliasImportPath(h, jsImportPath) ==
  IF h.npmModule # jsImportPath.npmModule
  THEN LET modulePart == RemoveAll(ReplaceAll(jsImportPath.npmModule, {"/", ".", "-"}), "@")
       IN IF jsImportPath.npmPathUnderModule = <<>> THEN modulePart
          ELSE modulePart \o <<"_", "_">>
                 \o ReplaceAll(jsImportPath.npmPathUnderModule, {"/", "@", ".", "-"})
  ELSE <<"_">> \o ReplaceAll(jsImportPath.path, {"/", "@", ".", "-"})

\* The segments of a path, "." and empty segments dropped, ".." resolved.
PathSegments(str) ==
  FoldSeq(LAMBDA acc, seg:
            IF seg = <<>> \/ seg = <<".">> THEN acc
            ELSE IF seg = <<".", ".">> /\ acc # <<>> /\ acc[Len(acc)] # <<".", ".">>
            THEN SubSeq(acc, 1, Len(acc) - 1)
            ELSE Append(acc, seg),
          <<>>, Split(str, "/"))

\* segments.join("/")
JoinPath(segs) ==
  FoldSeq(LAMBDA acc, k: IF k = 1 THEN segs[k] ELSE acc \o <<"/">> \o segs[k],
          <<>>, Indices(segs))

\* path.join(a, b) of two relative paths
path_join(a, b) ==
  LET segs == PathSegments(a \o <<"/">> \o b)
  IN IF segs = <<>> THEN <<".">> ELSE JoinPath(segs)

\* path.dirname(p) of a relative path
path_dirname(str) ==
  LET slashes == {k \in DOMAIN str : str[k] = "/"}
      i == IF slashes = {} THEN 0 ELSE CHOOSE k \in slashes : \A j \in slashes : j <= k
  IN IF i = 0 THEN <<".">> ELSE IF i = 1 THEN <<"/">> ELSE SubSeq(str, 1, i - 1)

\* path.relative(from, to) of two paths relative to the working directory
path_relative(from, to) ==
  LET a == PathSegments(from)
      b == PathSegments(to)
      same == {n \in 0..Len(a) : n <= Len(b) /\ \A k \in 1..n : a[k] = b[k]}
      c == CHOOSE n \in same : \A m \in same : m <= n
  IN JoinPath([k \in 1..(Len(a) - c) |-> <<".", ".">>] \o SubSeq(b, c + 1, Len(b)))

resolveImport(h, jsImportPath) ==
  IF h.npmModule # jsImportPath.npmModule
  THEN path_join(jsImportPath.npmModule, jsImportPath.npmPathUnderModule)
  ELSE LET from == path_dirname(h.path)
           relPath == path_relative(from, <<".", "/">> \o jsImportPath.path)
       IN IF relPath = <<>> \/ relPath[1] # "." THEN <<".", "/">> \o relPath
          ELSE relPath

\* private addImport(jsImportPath)
addImport(imports, jsImportPath) ==
  IF \E k \in DOMAIN imports : equals(imports[k], jsImportPath) THEN imports
  ELSE Append(imports, jsImportPath)

\* GeneratedFile.qualifiedJSIdent(ident): the string returned and the imports
\* afterwards
qualifiedJSIdent(this, ident) ==
  IF equals(this.jsImportPath, ident.importPath)
  THEN [val |-> ident.name, imports |-> this.imports]
  ELSE [val |-> aliasImportPath(this.jsImportPath, ident.importPath)
                  \o <<".">> \o ident.name,
        imports |-> addImport(this.imports, ident.importPath)]

\* An argument of P is a JSIdent or is turned into a string with String(arg).
IsJSIdent(arg) == DOMAIN arg = {"importPath", "name"}
Text(str) == [text |-> str]

\* GeneratedFile.P(...args)
P(this, args) ==
  LET st == FoldSeq(LAMBDA acc, arg:
                      IF IsJSIdent(arg)
                      THEN LET q == qualifiedJSIdent([this EXCEPT !.imports = acc.imports], arg)
                           IN [line |-> acc.line \o q.val, imports |-> q.imports]
                      ELSE [acc EXCEPT !.line = @ \o arg.text],
                    [line |-> <<>>, imports |-> this.imports], args)
  IN [this EXCEPT !.buf = Append(@, st.line), !.imports = st.imports]

\* `import * as ${alias} from "${path}";`
ImportStatement(alias, path) ==
  <<"import * as ">> \o alias \o <<" from \"">> \o path \o <<"\";">>

\* lines.join("\n")
JoinLines(lines) ==
  FoldSeq(LAMBDA acc, k: IF k = 1 THEN lines[k] ELSE acc \o <<"\n">> \o lines[k],
          <<>>, Indices(lines))

\* GeneratedFile.proto(): the content of the file
proto(this) ==
  LET stmts == [k \in DOMAIN this.imports |->
                  ImportStatement(aliasImportPath(this.jsImportPath, this.imports[k]),
                                  resolveImport(this.jsImportPath, this.imports[k]))]
      before == SubSeq(this.buf, 1, this.importMark)
      after == SubSeq(this.buf, this.importMark + 1, Len(this.buf))
  IN JoinLines(IF this.importMark > -1 THEN before \o stmts \o after ELSE this.buf)

\* The import paths of the files a generator writes and refers to: local
\* files, an npm package imported as a whole, a file of an npm package as
\* defaultJSImportFunc makes it (path and path under the module alike), and
\* two files of another package that are only imported (their path is empty).
LocalX == JSImportPath(<<"x">>, <<>>, <<>>)
LocalY == JSImportPath(<<"y">>, <<>>, <<>>)
LocalDZ == JSImportPath(<<"d", "/", "z">>, <<>>, <<>>)
NpmGrpc == JSImportPath(<<>>, <<"@", "g", "/", "r", "-", "j">>, <<>>)
NpmT == JSImportPath(<<"a", "/", "t">>, <<"g", "p">>, <<"a", "/", "t">>)
NpmD == JSImportPath(<<>>, <<"w">>, <<"a", ".", "d">>)
NpmE == JSImportPath(<<>>, <<"w">>, <<"e">>)
\* Another file of the package of NpmT, a local file in a directory whose
\* name starts with a dot, a local file d-z next to the directory d, and the
\* package g-r-j next to the scoped package @g/r-j.
NpmU == JSImportPath(<<"u">>, <<"g", "p">>, <<"u">>)
LocalHidden == JSImportPath(<<".", "h", "/", "x">>, <<>>, <<>>)
LocalD_Z == JSImportPath(<<"d", "-", "z">>, <<>>, <<>>)
NpmGRJ == JSImportPath(<<>>, <<"g", "-", "r", "-", "j">>, <<>>)

Homes == {LocalX, LocalY, NpmT}

\* The files the generator of the file at home refers to.
Referable(home) ==
  IF home = LocalX THEN {LocalX, LocalY, LocalHidden, NpmGrpc, NpmD, NpmE}
  ELSE IF home = LocalY THEN {LocalDZ, LocalD_Z, NpmGrpc, NpmGRJ}
  ELSE {NpmT, NpmU, LocalX}

ImportPaths == UNION {Referable(home) : home \in Homes}
Idents == {JSIdent(ip, <<"A">>) : ip \in Referable(gf.jsImportPath)}
PArgs == {<<>>, <<Text(<<"t">>)>>} \cup {<<Text(<<"t">>), id>> : id \in Idents}

InitBuffer ==
  /\ request = [protoFile |-> <<>>, fileToGenerate |-> <<>>]
  /\ pc = "callback"
  /\ cur = 1
  /\ error = "none"
  /\ registry = EmptyRegistry
  /\ files = EmptyFn /\ messages = EmptyFn /\ fields = EmptyFn
  /\ enums = EmptyFn /\ services = EmptyFn /\ methods = EmptyFn
  /\ filesToGenerate = <<>>
  /\ log = <<>>
  /\ first = EmptyRegistry
  /\ ncalls = 0
  /\ last = NoCall
  /\ generatedFiles = <<>> /\ stdout = <<>> /\ invoked = 0 /\ thrown = "none"
  /\ paramString = <<>> /\ params = <<>> /\ parsed = FALSE
  /\ \E home \in Homes :
       gf = [jsImportPath |-> home, buf |-> <<>>, importMark |-> -1, imports |-> <<>>]
  /\ gcalls = 0 /\ gret = NoCall /\ referenced = {} /\ results = {}
  /\ finalized = FALSE /\ content = <<>>
  /\ marks = <<>> /\ firstRefs = <<>>

notBufVars == <<pc, graphVars, genVars, paramVars>>

\* The history of first references after the identifiers idents were
\* qualified in this order.
Referenced(idents) ==
  FoldSeq(LAMBDA acc, ident:
            IF ident.importPath = gf.jsImportPath
               \/ \E k \in DOMAIN acc : acc[k][1] = ident.importPath
            THEN acc
            ELSE Append(acc, <<ident.importPath, Len(marks)>>),
          firstRefs, idents)

CallP ==
  \E args \in PArgs :
    /\ ~finalized /\ gcalls < MaxOps
    /\ gf' = P(gf, args)
    /\ gcalls' = gcalls + 1
    /\ gret' = [op |-> "P", args |-> args]
    /\ referenced' = referenced \cup {arg.importPath : arg \in {a \in Range(args) : IsJSIdent(a)}}
    /\ firstRefs' = Referenced(SelectSeq(args, IsJSIdent))
    /\ UNCHANGED <<results, finalized, content, marks, notBufVars>>

CallQualifiedJSIdent ==
  \E ident \in Idents :
    /\ ~finalized /\ gcalls < MaxOps
    /\ LET q == qualifiedJSIdent(gf, ident)
       IN /\ gf' = [gf EXCEPT !.imports = q.imports]
          /\ gret' = [op |-> "qualifiedJSIdent", ident |-> ident, val |-> q.val,
                      before |-> gf.imports]
          /\ results' = results \cup {<<ident, q.val>>}
    /\ gcalls' = gcalls + 1
    /\ referenced' = referenced \cup {ident.importPath}
    /\ firstRefs' = Referenced(<<ident>>)
    /\ UNCHANGED <<finalized, content, marks, notBufVars>>

\* faulty variant: a mark already set is kept
CallPrintImports_keepFirst ==
  /\ ~finalized
  /\ (IF marks = <<>> THEN TRUE ELSE marks[Len(marks)] # Len(gf.buf))
  /\ gf' = [gf EXCEPT !.importMark = IF @ > -1 THEN @ ELSE Len(gf.buf)]
  /\ marks' = Append(marks, Len(gf.buf))
  /\ gret' = [op |-> "printImports"]
  /\ UNCHANGED <<gcalls, referenced, results, finalized, content, firstRefs,
                 notBufVars>>

CallPrintImports ==
  /\ ~finalized
  /\ gf.importMark # Len(gf.buf)
  /\ gf' = [gf EXCEPT !.importMark = Len(gf.buf)]
  /\ marks' = Append(marks, Len(gf.buf))
  /\ gret' = [op |-> "printImports"]
  /\ UNCHANGED <<gcalls, referenced, results, finalized, content, firstRefs,
                 notBufVars>>

CallProto ==
  /\ ~finalized
  /\ finalized' = TRUE
  /\ content' = proto(gf)
  /\ gret' = [op |-> "proto"]
  /\ UNCHANGED <<gf, gcalls, referenced, results, marks, firstRefs, notBufVars>>

NextBuffer == CallP \/ CallQualifiedJSIdent \/ CallPrintImports \/ CallProto

SpecBuffer == InitBuffer /\ [][NextBuffer]_vars

\* =================================================================== claims
NumFiles == Len(request.protoFile)

HasEvent(op, id) == \E k \in DOMAIN log : log[k] = Event(op, id)

\* C1: no file's resolve step runs before the register step of every file of
\* the request has completed (phase 1 over all files, then phase 2).
C1_RegisterAllBeforeResolve ==
  pc = "resolve" => \A i \in 1..NumFiles : HasEvent("File._register", <<i>>)

\* The declarations of a request, read off its descriptors at any depth.
RECURSIVE DeclaredMessages(_, _)
DeclaredMessages(scope, protos) ==
  UNION {{scope \o Dot \o protos[k].name}
           \cup DeclaredMessages(scope \o Dot \o protos[k].name, protos[k].nestedType)
         : k \in DOMAIN protos}

RECURSIVE DeclaredEnums(_, _, _)
DeclaredEnums(scope, enumProtos, msgProtos) ==
  {scope \o Dot \o enumProtos[k].name : k \in DOMAIN enumProtos}
    \cup UNION {DeclaredEnums(scope \o Dot \o msgProtos[k].name,
                              msgProtos[k].enumType, msgProtos[k].nestedType)
                : k \in DOMAIN msgProtos}

RECURSIVE FieldProtos(_, _)
FieldProtos(fieldProtos, msgProtos) ==
  Range(fieldProtos)
    \cup UNION {FieldProtos(msgProtos[k].field \o msgProtos[k].extension,
                            msgProtos[k].nestedType)
                : k \in DOMAIN msgProtos}

RECURSIVE MessageFullNames(_, _)
MessageFullNames(scope, protos) ==
  IF protos = <<>> THEN <<>>
  ELSE <<scope \o Dot \o Head(protos).name>>
         \o MessageFullNames(scope \o Dot \o Head(protos).name, Head(protos).nestedType)
         \o MessageFullNames(scope, Tail(protos))

NoRepeat(s) == \A j, k \in DOMAIN s : j # k => s[j] # s[k]

AllMessageNames(req) ==
  UNION {DeclaredMessages(req.protoFile[i].package, req.protoFile[i].messageType)
         : i \in DOMAIN req.protoFile}

AllEnumNames(req) ==
  UNION {DeclaredEnums(req.protoFile[i].package, req.protoFile[i].enumType,
                       req.protoFile[i].messageType)
         : i \in DOMAIN req.protoFile}

IsQualified(typeName) == typeName # <<>> /\ Head(typeName) = "."

\* Every name a request refers to is declared by one of its files, every
\* declaration has its own name, and the request passes the checks made
\* before the build.
\* Some message among protos (at any depth) has a field whose oneof index
\* names none of the message's oneofs.
RECURSIVE OneofIndexOutOfRange(_)
OneofIndexOutOfRange(protos) ==
  \E k \in DOMAIN protos :
    \/ \E j \in DOMAIN protos[k].field :
         /\ protos[k].field[j].hasOneofIndex
         /\ protos[k].field[j].oneofIndex >= Len(protos[k].oneofDecl)
    \/ OneofIndexOutOfRange(protos[k].nestedType)

WellFormed(req) ==
  /\ req.protoFile # <<>> /\ req.fileToGenerate # <<>>
  /\ NoRepeat([i \in DOMAIN req.protoFile |-> req.protoFile[i].name])
  /\ \A i \in DOMAIN req.protoFile :
       LET fp == req.protoFile[i]
       IN /\ fp.name # <<>> /\ fp.package # <<>>
          /\ \A k \in DOMAIN fp.dependency :
               \E j \in DOMAIN req.protoFile : req.protoFile[j].name = fp.dependency[k]
          /\ ~OneofIndexOutOfRange(fp.messageType)
          /\ \A f \in FieldProtos(fp.extension, fp.messageType) :
               /\ f.label \in {LabelOptional, LabelRequired, LabelRepeated}
               /\ f.typeName # <<>> =>
                    /\ IsQualified(f.typeName)
                    /\ Tail(f.typeName) \in AllMessageNames(req) \cup AllEnumNames(req)
               /\ f.extendee # <<>> =>
                    /\ IsQualified(f.extendee)
                    /\ Tail(f.extendee) \in AllMessageNames(req)
          /\ \A s \in DOMAIN fp.service : \A m \in DOMAIN fp.service[s].method :
               LET mp == fp.service[s].method[m]
               IN /\ IsQualified(mp.inputType) /\ IsQualified(mp.outputType)
                  /\ Tail(mp.inputType) \in AllMessageNames(req)
                  /\ Tail(mp.outputType) \in AllMessageNames(req)
  /\ NoRepeat(FoldSeq(LAMBDA acc, fp: acc \o MessageFullNames(fp.package, fp.messageType),
                      <<>>, req.protoFile))
  /\ \A i, j \in DOMAIN req.protoFile : i # j =>
       DeclaredEnums(req.protoFile[i].package, req.protoFile[i].enumType,
                     req.protoFile[i].messageType)
         \cap DeclaredEnums(req.protoFile[j].package, req.protoFile[j].enumType,
                            req.protoFile[j].messageType) = {}

\* C2: a request whose dependency names and fully-qualified type names all
\* refer to declarations of its own files (and whose labels and oneof indices
\* are valid) builds without error, whatever the order of its files.
C2_WellFormedRequestBuilds == WellFormed(request) => pc # "failed"

\* The extension objects: the members of some extensions list.
IsExtension(f) ==
  \/ \E x \in DOMAIN files : f \in Range(files[x].extensions)
  \/ \E m \in DOMAIN messages : f \in Range(messages[m].extensions)

\* C3: after the register step of a file, every File, Message, Enum, Service
\* and Extension constructed for it is found in the Registry under its full
\* name, at any nesting depth.
C3_AllDeclarationsRegistered ==
  pc = "resolve" =>
    /\ fileByName(registry, files[<<cur>>].name) = <<cur>>
    /\ \A m \in DOMAIN messages : messages[m].parentFile = <<cur>> =>
         messageByName(registry, messages[m].fullName) = m
    /\ \A e \in DOMAIN enums : enums[e].parentFile = <<cur>> =>
         enumByName(registry, enums[e].fullName) = e
    /\ \A s \in DOMAIN services : services[s].parentFile = <<cur>> =>
         serviceByName(registry, services[s].fullName) = s
    /\ \A f \in DOMAIN fields : (fields[f].parentFile = <<cur>> /\ IsExtension(f)) =>
         extensionByName(registry, fields[f].fullName) = f

\* C4: when DuplicateRegistration is raised no resolve-phase work has
\* occurred: no dependency list, no field target, no method input or output
\* has been set.
C4_DuplicateBeforeAnyResolve ==
  error = "DuplicateRegistration" =>
    /\ \A x \in DOMAIN files : files[x].dependencies = <<>>
    /\ \A f \in DOMAIN fields :
         fields[f].enumType = NULL /\ fields[f].message = NULL /\ fields[f].extendee = NULL
    /\ \A m \in DOMAIN methods : methods[m].input = NULL /\ methods[m].output = NULL

\* C8: after a successful build a Field of kind Enum has an enum reference, a
\* Field of kind Message has a message reference, and a Field of any other
\* kind has neither.
C8_TargetMatchesKind ==
  pc = "done" =>
    \A f \in DOMAIN fields :
      /\ fields[f].kind = KindEnum => fields[f].enumType # NULL
      /\ fields[f].kind = KindMessage => fields[f].message # NULL
      /\ fields[f].kind \notin {KindEnum, KindMessage} =>
           (fields[f].enumType = NULL /\ fields[f].message = NULL)

\* C5: a register call under a key already present for that kind fails and
\* leaves the Registry unchanged; under a key absent for that kind (present
\* or not for other kinds) it succeeds and adds the declaration; lookup
\* returns the first declaration registered under (kind, key), or not-found.
C5_RegisterOnceLookupFirst ==
  [][(last'.op = "register" /\ ncalls' = ncalls + 1) =>
       /\ IF last'.key \in DOMAIN first[last'.kind]
          THEN last'.err = "DuplicateRegistration" /\ registry' = registry
          ELSE /\ last'.err = "none"
               /\ Lookup(registry', last'.kind, last'.key) = last'.decl
               /\ \A kind \in RKinds \ {last'.kind} : registry'[kind] = registry[kind]
       /\ \A kind \in RKinds, key \in RKeys :
            Lookup(registry', kind, key) = MapGet(first'[kind], key)]_vars

\* a duplicate was rejected while the same key is held under two kinds
C5_Witness ==
  /\ last.op = "register" /\ last.err = "DuplicateRegistration"
  /\ \E k1, k2 \in RKinds : k1 # k2 /\ last.key \in DOMAIN registry[k1]
                            /\ last.key \in DOMAIN registry[k2]
  /\ Lookup(registry, last.kind, last.key) # last.decl

IsResolveCall == last.op \in {"resolveEnumTypeName", "resolveMessageTypeName"}

\* C6: for a type name that begins with '.', the resolvers return the
\* declaration registered for their kind under the name without the leading
\* '.', or not-found when none was registered; they do not throw and look up
\* no other name.
C6_QualifiedNameLookup ==
  (IsResolveCall /\ IsQualified(last.typeName)) =>
    /\ last.res.err = "none"
    /\ last.res.val = MapGet(first[last.kind], Tail(last.typeName))
    /\ last.res.probes = <<Tail(last.typeName)>>

\* a qualified name was resolved to a declaration while the other kind holds
\* a different declaration under that name
C6_Witness ==
  /\ IsResolveCall /\ IsQualified(last.typeName)
  /\ last.res.val # NULL
  /\ \E kind \in {"enums", "messages"} \ {last.kind} :
       /\ Tail(last.typeName) \in DOMAIN registry[kind]
       /\ registry[kind][Tail(last.typeName)] # last.res.val

\* The namespace without its last dotted component ("" when it has one).
RECURSIVE StripLastComponent(_)
StripLastComponent(ns) ==
  IF ns = <<>> THEN <<>>
  ELSE IF ns[Len(ns)] = "." THEN SubSeq(ns, 1, Len(ns) - 1)
  ELSE StripLastComponent(SubSeq(ns, 1, Len(ns) - 1))

\* The names scoped resolution probes, in order.
RECURSIVE ScopedProbes(_, _)
ScopedProbes(ns, typeName) ==
  IF ns = <<>> THEN <<typeName>>
  ELSE <<ns \o Dot \o typeName>> \o ScopedProbes(StripLastComponent(ns), typeName)

RECURSIVE FirstMatch(_, _)
FirstMatch(map, probes) ==
  IF probes = <<>> THEN NULL
  ELSE IF Head(probes) \in DOMAIN map THEN map[Head(probes)]
  ELSE FirstMatch(map, Tail(probes))

\* C7: for a type name that does not begin with '.', the resolvers apply
\* scoped resolution: they return the first match among reference.typeName,
\* the same with the reference namespace shortened one component at a time,
\* and the bare typeName, or not-found.
C7_ScopedResolution ==
  (IsResolveCall /\ last.typeName # <<>> /\ ~IsQualified(last.typeName)) =>
    /\ last.res.err = "none"
    /\ last.res.val = FirstMatch(first[last.kind],
                                 ScopedProbes(last.reference, last.typeName))

\* Number of times Field._resolve has run for field f.
ResolveCount(f) == Cardinality({k \in DOMAIN log : log[k] = Event("Field._resolve", f)})

Unresolved(f) ==
  fields[f].enumType = NULL /\ fields[f].message = NULL /\ fields[f].extendee = NULL

\* The file whose objects have index i has been resolved.
FileResolved(i) == i < cur

\* C9: a Field is constructed with no targets, Field._resolve runs at most
\* once for it, and exactly once when its file has been resolved (fields of
\* messages at any depth, extensions, fields of map-entry messages); its
\* targets change only in that run, which belongs to a resolve step.
C9_FieldResolvedExactlyOnce ==
  /\ [](\A f \in DOMAIN fields :
          /\ ResolveCount(f) <= 1
          /\ ResolveCount(f) = 0 => Unresolved(f)
          /\ FileResolved(f[1]) => ResolveCount(f) = 1)
  /\ [][\A f \in DOMAIN fields :
          fields'[f] # fields[f] =>
            (pc = "resolve" /\ ResolveCount(f) = 0 /\ ResolveCount(f)' = 1)]_vars

\* a build is done in which a field three messages deep, an extension and the
\* value field of a map-entry message have got their targets
C9_Witness ==
  /\ pc = "done"
  /\ \E f \in DOMAIN fields :
       /\ fields[f].parent # NULL /\ messages[fields[f].parent].parent # NULL
       /\ messages[messages[fields[f].parent].parent].parent # NULL
       /\ fields[f].message # NULL
  /\ \E f \in DOMAIN fields : IsExtension(f) /\ fields[f].extendee # NULL
  /\ \E f \in DOMAIN fields :
       /\ fields[f].parent # NULL /\ messages[fields[f].parent].mapEntry
       /\ fields[f].message # NULL

\* The nested messages constructed for message m, in construction order.
ConstructedNested(m) ==
  [k \in 1..Cardinality({n \in DOMAIN messages : messages[n].parent = m}) |->
     m \o <<3, k - 1>>]

NotMapEntry(n) == ~messages[n].mapEntry

\* C10: once a file is resolved, the nested-message list of each of its
\* Messages is the constructed list without the map-entry messages, in the
\* original order, and no field, extension, enum or top-level message has
\* left its owner's list; a map-entry message is removed only after
\* Field._resolve has run for each of its fields.
C10_MapEntriesRemoved ==
  /\ \A k \in DOMAIN log : log[k].op = "remove" =>
       \A f \in Range(messages[log[k].id].fields) :
         \E j \in 1..(k - 1) : log[j] = Event("Field._resolve", f)
  /\ \A m \in DOMAIN messages : FileResolved(m[1]) =>
       /\ \A n \in Range(messages[m].messages) : ~messages[n].mapEntry
       /\ messages[m].messages = SelectSeq(ConstructedNested(m), NotMapEntry)
       /\ \A f \in DOMAIN fields : fields[f].parent = m =>
            f \in Range(messages[m].fields) \cup Range(messages[m].extensions)
       /\ \A e \in DOMAIN enums : enums[e].parent = m => e \in Range(messages[m].enums)
       /\ messages[m].parent = NULL => m \in Range(files[messages[m].parentFile].messages)

\* a build is done in which two map-entry messages were removed from a list
\* that keeps two other messages
C10_Witness ==
  /\ pc = "done"
  /\ \E m \in DOMAIN messages :
       /\ Len(messages[m].messages) = 2
       /\ Cardinality({n \in DOMAIN messages :
                         messages[n].parent = m /\ HasEvent("remove", n)}) = 2

\* ------------------------------------------------ Field: maps and lists
\* Field.isMap(): the field's message is a map-entry message
isMap(f) ==
  IF fields[f].message = NULL THEN FALSE
  ELSE messages[fields[f].message].mapEntry

\* faulty variant: every repeated field is a list
isList_ignoringMap(f) == fields[f].cardinality = "Repeated"

\* Field.isList()
isList(f) == fields[f].cardinality = "Repeated" /\ ~isMap(f)

\* Field.mapKey(): this.message.fields[0]
mapKey(f) == IF ~isMap(f) THEN NULL ELSE messages[fields[f].message].fields[1]

\* Field.mapValue(): this.message.fields[1]
mapValue(f) == IF ~isMap(f) THEN NULL ELSE messages[fields[f].message].fields[2]

\* The field refers to a message that the descriptor marks as a map entry.
RefersToMapEntry(f) ==
  /\ fields[f].message # NULL
  /\ messages[fields[f].message].proto.mapEntry

\* C11: a resolved field that refers to a map-entry message is a map and not
\* a list although it is repeated, its key and value are the first and the
\* second field of that message; every other resolved field is no map, has
\* no key and no value, and is a list exactly when its label is repeated.
C11_MapAndListAccessors ==
  \A f \in DOMAIN fields : FileResolved(f[1]) =>
    IF RefersToMapEntry(f)
    THEN /\ isMap(f)
         /\ ~isList(f)
         /\ mapKey(f) = fields[f].message \o <<2, 0>>
         /\ mapValue(f) = fields[f].message \o <<2, 1>>
    ELSE /\ ~isMap(f)
         /\ mapKey(f) = NULL
         /\ mapValue(f) = NULL
         /\ isList(f) = (fields[f].proto.label = LabelRepeated)

\* a build is done with a repeated field that is a map (its key is named
\* key, its value is named value), a repeated field of message type that is a
\* list and a field that is neither
C11_Witness ==
  /\ pc = "done"
  /\ \E f, g, h \in DOMAIN fields :
       /\ fields[f].cardinality = "Repeated" /\ isMap(f)
       /\ fields[mapKey(f)].name = <<"key">>
       /\ fields[mapValue(f)].name = <<"value">>
       /\ fields[g].cardinality = "Repeated" /\ fields[g].message # NULL /\ isList(g)
       /\ ~isMap(h) /\ ~isList(h)

\* ------------------------------------------------------ Message: oneofs
\* Number of positions of list at which x stands.
Occurrences(list, x) == Cardinality({k \in DOMAIN list : list[k] = x})

\* C12: in a constructed Message the Field built from field proto number k is
\* once in the Message's fields list; when the proto has oneof index i the
\* same Field is once in the fields list of oneof number i, in no other
\* oneof, and has that oneof as its oneof; without an oneof index it is in no
\* oneof.
C12_OneofMembership ==
  \A m \in DOMAIN messages :
    \A k \in DOMAIN messages[m].proto.field :
      LET fp == messages[m].proto.field[k]
          f == m \o <<2, k - 1>>
          oneofs == messages[m].oneofs
      IN /\ f \in DOMAIN fields
         /\ fields[f].proto = fp
         /\ Occurrences(messages[m].fields, f) = 1
         /\ \A j \in DOMAIN oneofs :
              Occurrences(oneofs[j].fields, f) =
                IF fp.hasOneofIndex /\ j = fp.oneofIndex + 1 THEN 1 ELSE 0
         /\ fields[f].oneof =
              IF fp.hasOneofIndex THEN oneofs[fp.oneofIndex + 1].id ELSE NULL

\* a build is done with a message of two oneofs, one of them with two
\* fields, and a field outside any oneof between them
C12_Witness ==
  /\ pc = "done"
  /\ \E m \in DOMAIN messages :
       /\ Len(messages[m].oneofs) = 2
       /\ Len(messages[m].oneofs[2].fields) = 2
       /\ Len(messages[m].oneofs[1].fields) = 1
       /\ \E f \in Range(messages[m].fields) : fields[f].oneof = NULL

\* The loop of Options.run has constructed file number i of the request.
FileConstructed(i) == i < cur \/ (i = cur /\ pc \in {"register", "resolve"})

\* C13: a file with a field whose oneof index is not below the number of
\* oneofs of its message is never constructed: the run fails at that file
\* with the error OneofIndexOutOfRange.
C13_OneofIndexOutOfRangeIsFatal ==
  \A i \in 1..NumFiles :
    OneofIndexOutOfRange(request.protoFile[i].messageType) =>
      /\ ~FileConstructed(i)
      /\ (pc = "failed" /\ cur = i /\ error \notin {"NoProtoFiles", "NoFilesToGenerate"})
            => error = "OneofIndexOutOfRange"

\* ------------------------------------------------------ File: dependencies
\* Position in the log of the first event op on object id, 0 when there is none.
EventIndex(op, id) ==
  IF HasEvent(op, id)
  THEN CHOOSE k \in DOMAIN log :
         /\ log[k] = Event(op, id)
         /\ \A j \in 1..(k - 1) : log[j] # Event(op, id)
  ELSE 0

\* C14: a resolved File's dependencies are, in the order of the dependency
\* names of its descriptor, the Files registered under those names, each
\* registered before the File was resolved, and a message-typed field of it
\* points at the message whose full name is the type name; resolving a File
\* one of whose dependency names has no registered file fails with
\* UnresolvedReference.
C14_DependenciesResolved ==
  /\ [](\A i \in 1..NumFiles : FileResolved(i) =>
          LET names == request.protoFile[i].dependency
              deps == files[<<i>>].dependencies
          IN /\ Len(deps) = Len(names)
             /\ \A k \in DOMAIN names :
                  /\ deps[k] \in DOMAIN files
                  /\ files[deps[k]].name = names[k]
                  /\ MapGet(registry.files, names[k]) = deps[k]
                  /\ EventIndex("File._register", deps[k]) > 0
                  /\ EventIndex("File._register", deps[k])
                       < EventIndex("File._resolve", <<i>>)
             /\ \A f \in DOMAIN fields :
                  (f[1] = i /\ fields[f].message # NULL) =>
                    messages[fields[f].message].fullName = Tail(fields[f].typeName))
  /\ [][(pc = "resolve" /\ \E k \in DOMAIN request.protoFile[cur].dependency :
                              ~MapHas(registry.files, request.protoFile[cur].dependency[k]))
          => (pc' = "failed" /\ error' = "UnresolvedReference")]_vars

\* a build is done in which a file names two dependencies in the order
\* opposite to the one they were registered in, and a field of a file points
\* at a message of its dependency
C14_Witness ==
  /\ pc = "done"
  /\ \E i \in 1..NumFiles :
       /\ Len(files[<<i>>].dependencies) = 2
       /\ files[<<i>>].dependencies[1][1] > files[<<i>>].dependencies[2][1]
       /\ \E f \in DOMAIN fields :
            /\ f[1] = i /\ fields[f].message # NULL
            /\ fields[f].message[1] = files[<<i>>].dependencies[2][1]

\* ------------------------------------------------ Options.run: failures
\* C15: when the construction of the graph has failed (a missing attribute,
\* a duplicate registration, an unresolved reference, an unrecognized label,
\* an oneof index out of range) the generation callback has not been called,
\* no buffer exists and no response has been written; the callback is called
\* only after every file of the request was built; nothing happens after the
\* failure.
C15_GraphFailureAborts ==
  /\ [](/\ error # "none" =>
            (pc = "failed" /\ invoked = 0 /\ generatedFiles = <<>> /\ stdout = <<>>)
        /\ invoked > 0 => (error = "none" /\ cur = NumFiles + 1))
  /\ [][pc # "failed"]_vars

\* the second file of a request failed to build after the first was built
C15_Witness ==
  /\ pc = "failed"
  /\ cur = 2
  /\ error \notin {"none", "NoProtoFiles", "NoFilesToGenerate"}
  /\ invoked = 0
  /\ <<1>> \in DOMAIN files

\* C16: at most one response is written; no response has both files and an
\* error message; when the callback or the finalization of a buffer threw,
\* the response has the error message made from what was thrown and no
\* file, whatever buffers exist; otherwise it has no error message and one
\* file per buffer.
C16_CallbackFailureResponse ==
  /\ Len(stdout) <= 1
  /\ (pc = "exit") = (Len(stdout) = 1)
  /\ \A k \in DOMAIN stdout : ~(stdout[k].file # <<>> /\ stdout[k].error # <<>>)
  /\ (pc = "exit" /\ thrown # "none") =>
       /\ stdout[1].file = <<>>
       /\ stdout[1].error = <<"Plugin exited with error: ", thrown>>
  /\ (pc = "exit" /\ thrown = "none") =>
       /\ stdout[1].error = <<>>
       /\ Len(stdout[1].file) = Len(generatedFiles)
       /\ \A k \in DOMAIN generatedFiles :
            stdout[1].file[k] = [name |-> generatedFiles[k].filename,
                                 content |-> generatedFiles[k].buf]

\* the callback threw after it had created two buffers and printed to them
C16_Witness ==
  /\ pc = "exit"
  /\ thrown = "callback failed"
  /\ Len(generatedFiles) = 2
  /\ \A k \in DOMAIN generatedFiles :
       generatedFiles[k].buf # <<>> /\ ~generatedFiles[k].beforeResponseThrows

\* ------------------------------------------------- the parameter string
\* What an entry of the parameter string adds to the parameters: nothing when
\* it is empty, its text with the empty value when it has no '=', else the
\* text before its first '=' with all the text after that '='.
EntryAdded(ps, entry) ==
  LET i == IndexOf(entry, "=")
  IN IF entry = <<>> THEN ps
     ELSE IF i = 0 THEN MapSet(ps, entry, <<>>)
     ELSE MapSet(ps, SubSeq(entry, 1, i - 1), SubSeq(entry, i + 1, Len(entry)))

\* C17: the parameters parsed from a parameter string are what its entries
\* (the pieces between the ','), taken in order, add: an entry is split at
\* its first '=' only, and further '=' stay in the value.
C17_ParameterStringParsing ==
  parsed => params = FoldSeq(EntryAdded, EmptyFn, Split(paramString, ","))

\* ------------------------------------------- GeneratedFile and its imports
\* The import statements among the lines of the finalized content.
ImportLines ==
  SelectSeq(Split(content, "\n"), LAMBDA line : line # <<>> /\ line[1] = "import * as ")

\* The import paths referenced so far that are not the home of the buffer.
ForeignReferenced == referenced \ {gf.jsImportPath}

\* C18: qualifiedJSIdent returns the bare name and leaves the imports as they
\* were when the identifier's import path is the home of the buffer;
\* otherwise it returns alias.name and the import path is among the imports
\* afterwards. Finalized with the mark set, a buffer that referred to its
\* home only has no import line, and the buffer of home x that referred to y
\* has the one line import * as _y from "./y";
C18_QualifiedJSIdent ==
  /\ gret.op = "qualifiedJSIdent" =>
       IF gret.ident.importPath = gf.jsImportPath
       THEN gret.val = gret.ident.name /\ gf.imports = gret.before
       ELSE /\ gret.val = aliasImportPath(gf.jsImportPath, gret.ident.importPath)
                            \o <<".">> \o gret.ident.name
            /\ gret.ident.importPath \in Range(gf.imports)
  /\ (finalized /\ gf.importMark > -1) =>
       /\ ForeignReferenced = {} => ImportLines = <<>>
       /\ (gf.jsImportPath = LocalX /\ ForeignReferenced = {LocalY}) =>
            ImportLines = << <<"import * as ", "_", "y", " from \"", ".", "/", "y", "\";">> >>

\* C19: the imports of a buffer never hold two equal import paths and hold
\* every import path referenced that is not the home; an identifier qualified
\* more than once got the same string each time; finalized with the mark
\* set, the content has one import statement for each foreign import path
\* referenced and no other.
C19_ImportsDeduplicated ==
  /\ \A j, k \in DOMAIN gf.imports : gf.imports[j] = gf.imports[k] => j = k
  /\ ForeignReferenced \subseteq Range(gf.imports)
  /\ \A r1, r2 \in results : r1[1] = r2[1] => r1[2] = r2[2]
  /\ (finalized /\ gf.importMark > -1) =>
       /\ Len(ImportLines) = Cardinality(ForeignReferenced)
       /\ \A ip \in ForeignReferenced :
            ImportStatement(aliasImportPath(gf.jsImportPath, ip),
                            resolveImport(gf.jsImportPath, ip)) \in Range(ImportLines)

\* sanitize: each '/', '.', '-' and '@' becomes '_'
Sanitize(str) == ReplaceAll(str, {"/", ".", "-", "@"})

\* C20: the string returned for an identifier of another npm module than the
\* buffer's starts with the alias sanitize(module) when the path under the
\* module is empty, and sanitize(module) "__" sanitize(path under the module)
\* otherwise.
C20_NpmAlias ==
  \A r \in results :
    LET ip == r[1].importPath
    IN ip.npmModule # gf.jsImportPath.npmModule =>
         r[2] = (IF ip.npmPathUnderModule = <<>> THEN Sanitize(ip.npmModule)
                 ELSE Sanitize(ip.npmModule) \o <<"_", "_">>
                        \o Sanitize(ip.npmPathUnderModule))
                  \o <<".">> \o r[1].name

\* A foreign import path that is a local or relative module for the home h:
\* it has no npm module, or it has the npm module of h and another path.
IsRelativeModule(h, ip) ==
  \/ ip.npmModule = <<>> /\ ip # h
  \/ ip.npmModule = h.npmModule /\ ip.path # h.path

\* C21: the string returned for an identifier of a local or relative module
\* starts with the alias "_" sanitize(path), whatever the home of the buffer
\* is, a home inside an npm module included.
C21_RelativeAlias ==
  \A r \in results :
    IsRelativeModule(gf.jsImportPath, r[1].importPath) =>
      r[2] = <<"_">> \o Sanitize(r[1].importPath.path) \o <<".">> \o r[1].name

\* The position of the import path ip in the history of first references.
FirstRefIndex(ip) == CHOOSE k \in DOMAIN firstRefs : firstRefs[k][1] = ip

\* The import statements of the recorded import paths, in their order.
RecordedStatements ==
  [k \in DOMAIN gf.imports |->
     ImportStatement(aliasImportPath(gf.jsImportPath, gf.imports[k]),
                     resolveImport(gf.jsImportPath, gf.imports[k]))]

\* C22: the recorded import paths are foreign import paths in the order of
\* their first reference. The content of a finalized buffer on which
\* printImports was never called is its lines and has no import statement;
\* otherwise it is the lines there were at the last printImports call, then
\* one import statement for each recorded import path in that order, those
\* first referenced after the call included, then the lines appended later.
C22_ImportsAtLastMark ==
  /\ \A k \in DOMAIN gf.imports : \E j \in DOMAIN firstRefs : firstRefs[j][1] = gf.imports[k]
  /\ \A j, k \in DOMAIN gf.imports :
       j < k => FirstRefIndex(gf.imports[j]) < FirstRefIndex(gf.imports[k])
  /\ finalized =>
       IF marks = <<>>
       THEN content = JoinLines(gf.buf) /\ ImportLines = <<>>
       ELSE LET at == marks[Len(marks)]
            IN /\ content = JoinLines(SubSeq(gf.buf, 1, at) \o RecordedStatements
                                        \o SubSeq(gf.buf, at + 1, Len(gf.buf)))
               /\ ImportLines = RecordedStatements

\* A buffer finalized after two printImports calls at different lines, with
\* an import path first referenced before the first call, one first
\* referenced after the last call, both recorded, and a line after the mark.
C22_Witness ==
  /\ finalized /\ Len(marks) = 2 /\ marks[2] < Len(gf.buf)
  /\ \E j, k \in DOMAIN firstRefs :
       /\ firstRefs[j][2] = 0 /\ firstRefs[k][2] = 2
       /\ {firstRefs[j][1], firstRefs[k][1]} \subseteq Range(gf.imports)

\* The module path an import statement names: what stands between from "
\* and ";
ImportedPath(line) ==
  LET i == CHOOSE k \in DOMAIN line : line[k] = " from \""
  IN SubSeq(line, i + 1, Len(line) - 1)

\* str.startsWith(prefix)
StartsWith(str, prefix) ==
  Len(str) >= Len(prefix) /\ SubSeq(str, 1, Len(prefix)) = prefix

\* The relative path from the directory of the file at from to the file at
\* to, with ./ in front unless it goes up with ../
RelativeImport(from, to) ==
  LET rel == path_relative(path_dirname(from), to)
  IN IF StartsWith(rel, <<".", ".", "/">>) THEN rel ELSE <<".", "/">> \o rel

\* C23: in the content of a finalized buffer with the mark set, the import
\* statement of a recorded import path that has the npm module of the home
\* (or none, as the home) and another path names the relative path from the
\* home's directory to that path, and that starts with ./ or ../
C23_RelativeImportPath ==
  (finalized /\ marks # <<>>) =>
    \A k \in DOMAIN gf.imports :
      LET ip == gf.imports[k]
          named == ImportedPath(ImportLines[k])
      IN (ip.npmModule = gf.jsImportPath.npmModule /\ ip.path # gf.jsImportPath.path) =>
           /\ named = RelativeImport(gf.jsImportPath.path, ip.path)
           /\ StartsWith(named, <<".", "/">>) \/ StartsWith(named, <<".", ".", "/">>)

\* ------------------------------------------------------------------ methods
\* The build has succeeded: every file is constructed, registered, resolved.
BuildSucceeded == pc \in {"done", "callback", "exit"} /\ error = "none"

\* C24: the grpcPath of every Method is "/" service full name "/" method
\* name, and after a successful build its input and output are the Messages
\* registered under the input and output type names of its descriptor.
C24_MethodPathAndTypes ==
  \A m \in DOMAIN methods :
    /\ methods[m].grpcPath
         = <<"/">> \o services[methods[m].parent].fullName \o <<"/">> \o methods[m].name
    /\ BuildSucceeded =>
         /\ methods[m].input # NULL /\ methods[m].output # NULL
         /\ methods[m].input
              = messageByName(registry, SubSeq(methods[m].inputType, 2,
                                               Len(methods[m].inputType)))
         /\ methods[m].output
              = messageByName(registry, SubSeq(methods[m].outputType, 2,
                                               Len(methods[m].outputType)))

\* ------------------------------------------------------- Field: cardinality
\* The descriptors of all fields and extensions declared in file descriptor fd.
FileFieldProtos(fd) == FieldProtos(fd.extension, fd.messageType)

\* C25: the cardinality of every Field is Optional, Required or Repeated as
\* the label of its descriptor is 1, 2 or 3; a file with a field of any
\* other label is never constructed, none of its fields exists, and the run
\* fails at that file with the error UnrecognizedLabel.
C25_CardinalityFromLabel ==
  /\ \A f \in DOMAIN fields :
       \/ fields[f].proto.label = 1 /\ fields[f].cardinality = "Optional"
       \/ fields[f].proto.label = 2 /\ fields[f].cardinality = "Required"
       \/ fields[f].proto.label = 3 /\ fields[f].cardinality = "Repeated"
  /\ \A i \in 1..NumFiles :
       (\E fp \in FileFieldProtos(request.protoFile[i]) : fp.label \notin {1, 2, 3}) =>
         /\ ~FileConstructed(i)
         /\ \A f \in DOMAIN fields : fields[f].parentFile # <<i>>
         /\ (pc = "failed" /\ cur = i /\ error \notin {"NoProtoFiles", "NoFilesToGenerate"})
               => error = "UnrecognizedLabel"

\* Fields of the three cardinalities exist and the run has failed at a later
\* file for a label that is none of the three.
C25_Witness ==
  /\ pc = "failed" /\ error = "UnrecognizedLabel"
  /\ \A c \in {"Optional", "Required", "Repeated"} :
       \E f \in DOMAIN fields : fields[f].cardinality = c

\* ------------------------------------------------ aliases and their imports
\* The alias of a string alias.name that was returned for an identifier.
AliasOf(val) == SubSeq(val, 1, Len(val) - 2)

\* val is alias.name and not a bare name.
IsQualifiedName(val) == Len(val) >= 2 /\ val[Len(val) - 1] = "."

\* The aliases returned so far: by qualifiedJSIdent, and by P in the lines of
\* the buffer (a line is the text t or t followed by what the identifier gave).
ReturnedAliases ==
  {AliasOf(r[2]) : r \in {q \in results : IsQualifiedName(q[2])}}
    \cup {AliasOf(Tail(line)) :
            line \in {l \in Range(gf.buf) : l # <<>> /\ IsQualifiedName(Tail(l))}}

\* The alias an import statement binds: what stands between import * as and
\* from
BoundAlias(line) ==
  LET i == CHOOSE k \in DOMAIN line : line[k] = " from \""
  IN SubSeq(line, 2, i - 1)

\* C26: in the content of a finalized buffer with the mark set, every alias
\* returned by qualifiedJSIdent or P is bound by exactly one import statement
\* and every import statement binds an alias that was returned.
C26_AliasesBound ==
  (finalized /\ marks # <<>>) =>
    /\ \A a \in ReturnedAliases :
         Cardinality({k \in DOMAIN ImportLines : BoundAlias(ImportLines[k]) = a}) = 1
    /\ \A k \in DOMAIN ImportLines : BoundAlias(ImportLines[k]) \in ReturnedAliases

\* C27: two different foreign import paths referenced from one buffer never
\* have the same alias, and the content of a finalized buffer never has two
\* import statements that bind the same alias.
C27_AliasesDistinct ==
  /\ \A ip1, ip2 \in ForeignReferenced :
       ip1 # ip2 => aliasImportPath(gf.jsImportPath, ip1) # aliasImportPath(gf.jsImportPath, ip2)
  /\ finalized =>
       \A j, k \in DOMAIN ImportLines :
         BoundAlias(ImportLines[j]) = BoundAlias(ImportLines[k]) => j = k

\* ------------------------------------------------- Field: enum or message
\* The type name of field f without its leading dot.
TypeKey(f) == SubSeq(fields[f].typeName, 2, Len(fields[f].typeName))

\* C28: no Field has both an enum and a message: a Field with an enum has
\* the EnumType registered under its type name and no message, also when a
\* Message is registered under that name; a Field with a message has the
\* Message registered under its type name, and an EnumType of that name, if
\* there is one, is of a file that came later in the request.
C28_EnumXorMessage ==
  \A f \in DOMAIN fields :
    /\ ~(fields[f].enumType # NULL /\ fields[f].message # NULL)
    /\ fields[f].enumType # NULL => fields[f].enumType = enumByName(registry, TypeKey(f))
    /\ fields[f].message # NULL =>
         /\ fields[f].message = messageByName(registry, TypeKey(f))
         /\ LET e == enumByName(registry, TypeKey(f))
            IN e = NULL \/ enums[e].parentFile[1] > fields[f].parentFile[1]

\* A resolved Field whose type name is the name of an EnumType and of a
\* Message: it has the enum.
C28_Witness ==
  \E f \in DOMAIN fields :
    /\ fields[f].enumType # NULL
    /\ messageByName(registry, TypeKey(f)) # NULL

OfFile(ids, i) == {id \in ids : id[1] = i}

\* Everything that is registered, of whatever kind.
Registered ==
  UNION {Range(registry[kind]) : kind \in {"files", "messages", "enums", "services", "extensions"}}

\* C30: a file of the request whose descriptor has no package is never
\* constructed: no File, Message, EnumType, Service, Method or Field of it
\* exists, nothing of it is registered, the run fails at that file with the
\* error of the File constructor, and in a run on such a request the
\* generation callback is never called and no buffer exists.
C30_MissingPackageAborts ==
  \A i \in 1..NumFiles :
    request.protoFile[i].package = <<>> =>
      /\ ~FileConstructed(i)
      /\ OfFile(DOMAIN files \cup DOMAIN messages \cup DOMAIN enums \cup DOMAIN services
                  \cup DOMAIN methods \cup DOMAIN fields \cup Registered, i) = {}
      /\ (pc = "failed" /\ cur = i /\ error \notin {"NoProtoFiles", "NoFilesToGenerate"})
            => error = "MissingPackage"
      /\ invoked = 0 /\ generatedFiles = <<>>
      /\ pc \notin {"done", "callback"}

\* The run failed at a file without package that declares a message, after
\* an earlier file of the request was built.
C30_Witness ==
  /\ pc = "failed" /\ error = "MissingPackage" /\ cur > 1
  /\ request.protoFile[cur].package = <<>>
  /\ request.protoFile[cur].messageType # <<>>
  /\ OfFile(Registered, cur - 1) # {}

====
